---- MODULE Spec2Model ----
(***************************************************************************)
(* Payment-route resolution of the AgenPay OKX DEX integration.            *)
(*                                                                         *)
(* OKXDexService.calculatePaymentRoute decides between a direct payment    *)
(* and a swap, and delegates swap pricing to OKXDexService.getSwapQuote,   *)
(* which answers from a fixed local table in testnet mode and from the     *)
(* OKX aggregator (one HTTP GET) otherwise.                                *)
(*                                                                         *)
(* Strings that the code inspects character by character (token            *)
(* addresses, amounts) are sequences of one-character strings.  JavaScript *)
(* numbers are decimal fractions m * 10^(-e): every factor the code        *)
(* multiplies by (2500, 1/2500, 0.999, 1.001, 0.997) is a finite decimal,  *)
(* so the arithmetic is exact where IEEE doubles round in the last digit.  *)
(***************************************************************************)
EXTENDS Integers, Sequences, FiniteSets, TLC

(***************************************************************************)
(* Bounds                                                                  *)
(***************************************************************************)
\* number of calculatePaymentRoute resolutions started in one behaviour
MaxCalls == 2

(***************************************************************************)
(* JavaScript values                                                       *)
(***************************************************************************)
\* the value undefined where a string is expected (a missing property)
Undefined == <<"undefined">>

\* null / nothing, where a record is expected
Null == [null |-> TRUE]

\* the value null where a plain string is expected
NullString == "<null>"

\* a plain string or null used as a condition
Truthy(str) == str # NullString /\ str # ""

LowerChar(ch) ==
  CASE ch = "A" -> "a" [] ch = "B" -> "b" [] ch = "C" -> "c"
    [] ch = "D" -> "d" [] ch = "E" -> "e" [] ch = "F" -> "f"
    [] ch = "X" -> "x"
    [] OTHER -> ch

\* String.prototype.toLowerCase on a string value
ToLowerCase(s) == [i \in 1..Len(s) |-> LowerChar(s[i])]

(***************************************************************************)
(* Numbers: [m, e] is m * 10^(-e) with m >= 0 free of trailing zero        *)
(* digits (zero is [0, 0]); NaN and Infinity are the two values that are   *)
(* not finite numbers.  Results are kept to the range of a double; the     *)
(* rounding of the mantissa to 53 bits is not modelled.                    *)
(***************************************************************************)
NaN == [m |-> 0, e |-> -1]

Infinity == [m |-> 0, e |-> -2]

\* Number.isFinite
IsFinite(a) == a # NaN /\ a # Infinity

RECURSIVE Norm(_, _)
Norm(m, e) ==
  IF m = 0 THEN [m |-> 0, e |-> 0]
  ELSE IF m % 10 = 0 THEN Norm(m \div 10, e - 1)
  ELSE [m |-> m, e |-> e]

Digits == <<"0", "1", "2", "3", "4", "5", "6", "7", "8", "9">>

IsDigit(ch) == \E d \in 1..10 : Digits[d] = ch

DigitVal(ch) == (CHOOSE d \in 1..10 : Digits[d] = ch) - 1

RECURSIVE IntToDigits(_)
IntToDigits(n) ==
  IF n < 10 THEN <<Digits[n + 1]>>
  ELSE IntToDigits(n \div 10) \o <<Digits[(n % 10) + 1]>>

Zeros(k) == [i \in 1..k |-> "0"]

\* a < b for two digit strings of the same length
DigitsLess(a, b) ==
  \E i \in 1..Len(a) :
    /\ SubSeq(a, 1, i - 1) = SubSeq(b, 1, i - 1)
    /\ DigitVal(a[i]) < DigitVal(b[i])

\* 2^1024 - 2^970 = 0.17976931348623158079...e309: from here on a value
\* rounds to Infinity
OverflowDigits ==
  <<"1","7","9","7","6","9","3","1","3","4","8","6","2","3","1","5","8","0","7","9">>

\* 2^-1075 = 0.24703282292062327208...e-323: up to here a value rounds to 0
UnderflowDigits ==
  <<"2","4","7","0","3","2","8","2","2","9","2","0","6","2","3","2","7","2","0","8">>

\* the position of the decimal point: a = 0.d1d2...dk * 10^PointPos(a)
PointPos(a) == Len(IntToDigits(a.m)) - a.e

\* the double nearest to the exact value a, as far as its range goes
ToDouble(a) ==
  IF a = NaN \/ a = Infinity \/ a.m = 0 THEN a
  ELSE LET ds == IntToDigits(a.m) \o Zeros(Len(OverflowDigits) - Len(IntToDigits(a.m)))
           n  == PointPos(a)
       IN  IF n > 309 \/ (n = 309 /\ ~DigitsLess(ds, OverflowDigits)) THEN Infinity
           ELSE IF n < -323 \/ (n = -323 /\ ~DigitsLess(UnderflowDigits, ds))
             THEN Norm(0, 0)
           ELSE a

Num(m, e) == Norm(m, e)

MulNum(a, b) ==
  IF a = NaN \/ b = NaN THEN NaN
  ELSE IF a = Infinity \/ b = Infinity
    THEN IF a = Norm(0, 0) \/ b = Norm(0, 0) THEN NaN ELSE Infinity
  ELSE ToDouble(Norm(a.m * b.m, a.e + b.e))

\* x / 2500 = x * 0.0004
DivBy2500(a) == MulNum(a, Num(4, 4))

\* number of digit characters of s from position i on
RECURSIVE LeadDigits(_, _)
LeadDigits(s, i) ==
  IF i <= Len(s) /\ IsDigit(s[i]) THEN 1 + LeadDigits(s, i + 1) ELSE 0

RECURSIVE DigitsToInt(_)
DigitsToInt(s) ==
  IF s = <<>> THEN 0
  ELSE 10 * DigitsToInt(SubSeq(s, 1, Len(s) - 1)) + DigitVal(s[Len(s)])

InfinityText == <<"I", "n", "f", "i", "n", "i", "t", "y">>

\* parseFloat on unsigned text: the longest prefix that is Infinity or
\* digits[.digits][e[+-]digits]; NaN when there is none (the empty string,
\* undefined, any other text)
ParseFloat(s) ==
  LET n      == LeadDigits(s, 1)
      hasDot == n < Len(s) /\ s[n + 1] = "."
      f      == IF hasDot THEN LeadDigits(s, n + 2) ELSE 0
      p      == IF hasDot THEN n + f + 2 ELSE n + 1
      hasE   == p <= Len(s) /\ s[p] \in {"e", "E"}
      signed == hasE /\ p < Len(s) /\ s[p + 1] \in {"+", "-"}
      q      == IF signed THEN p + 2 ELSE p + 1
      x      == IF hasE THEN LeadDigits(s, q) ELSE 0
      expo   == DigitsToInt(SubSeq(s, q, q + x - 1))
      mant   == DigitsToInt(SubSeq(s, 1, n) \o SubSeq(s, n + 2, n + 1 + f))
  IN  IF Len(s) >= 8 /\ SubSeq(s, 1, 8) = InfinityText THEN Infinity
      ELSE IF n = 0 /\ f = 0 THEN NaN
      ELSE IF x = 0 THEN ToDouble(Norm(mant, f))
      ELSE IF signed /\ s[p + 1] = "-" THEN ToDouble(Norm(mant, f + expo))
      ELSE ToDouble(Norm(mant, f - expo))

\* Number.prototype.toString for a non-negative number: plain notation for
\* 1e-7 < a < 1e21, exponent notation outside
NumToString(a) ==
  IF a = NaN THEN <<"N", "a", "N">>
  ELSE IF a = Infinity THEN InfinityText
  ELSE IF a.m = 0 THEN <<"0">>
  ELSE LET ds == IntToDigits(a.m)
           k  == Len(ds)
           n  == PointPos(a)
       IN  IF k <= n /\ n <= 21 THEN ds \o Zeros(n - k)
           ELSE IF 0 < n /\ n <= 21
             THEN SubSeq(ds, 1, n) \o <<".">> \o SubSeq(ds, n + 1, k)
           ELSE IF -6 < n /\ n <= 0 THEN <<"0", ".">> \o Zeros(-n) \o ds
           ELSE (IF k = 1 THEN ds ELSE <<ds[1], ".">> \o SubSeq(ds, 2, k))
                \o <<"e", IF n >= 1 THEN "+" ELSE "-">>
                \o IntToDigits(IF n >= 1 THEN n - 1 ELSE 1 - n)

RECURSIVE Pow10(_)
Pow10(k) == IF k = 0 THEN 1 ELSE 10 * Pow10(k - 1)

\* Number.prototype.toFixed(2) for a non-negative number below 1e21
ToFixed2(a) ==
  IF a = NaN THEN <<"N", "a", "N">>
  ELSE IF a = Infinity THEN InfinityText
  ELSE LET cents == IF a.e <= 2 THEN a.m * Pow10(2 - a.e)
                    ELSE (a.m + 5 * Pow10(a.e - 3)) \div Pow10(a.e - 2)
       IN  IntToDigits(cents \div 100)
           \o <<".", Digits[((cents \div 10) % 10) + 1], Digits[(cents % 10) + 1]>>

(***************************************************************************)
(* Service configuration (OKXDexService constructor)                       *)
(***************************************************************************)
MockApiKey     == "mock-okx-api-key"
MockSecretKey  == "mock-okx-secret"
MockPassphrase == "mock-passphrase"
MockProjectId  == "mock-project-id"

\* an unset environment variable
Unset == ""

\* process.env as the constructor reads it
Envs ==
  [NODE_ENV       : {Unset, "development", "production"},
   OKX_API_KEY    : {Unset, "live-api-key"},
   OKX_SECRET_KEY : {"live-secret"},
   OKX_PASSPHRASE : {"live-passphrase"},
   OKX_PROJECT_ID : {"live-project"}]
  \cup
  [NODE_ENV       : {Unset, "development", "production"},
   OKX_API_KEY    : {Unset},
   OKX_SECRET_KEY : {Unset},
   OKX_PASSPHRASE : {Unset},
   OKX_PROJECT_ID : {Unset}]

\* process.env.X || fallback
OrDefault(v, fallback) == IF v = Unset THEN fallback ELSE v

Config(env) ==
  [apiKey      |-> OrDefault(env.OKX_API_KEY, MockApiKey),
   secretKey   |-> OrDefault(env.OKX_SECRET_KEY, MockSecretKey),
   passphrase  |-> OrDefault(env.OKX_PASSPHRASE, MockPassphrase),
   projectId   |-> OrDefault(env.OKX_PROJECT_ID, MockProjectId),
   testnetMode |-> env.NODE_ENV # "production"]

\* popularTokens['base-sepolia'], in insertion order
PopularTokens ==
  << [symbol |-> "ETH",
      address |-> <<"0","x","E","e","e","e","e","E","e","e","e","E","e","E","e","e","E","e","E","e","E","e","e","E","E","E","e","e","e","e","E","e","e","e","e","e","e","e","E","E","e","E">>],
     [symbol |-> "WETH",
      address |-> <<"0","x","4","2","0","0","0","0","0","0","0","0","0","0","0","0","0","0","0","0","0","0","0","0","0","0","0","0","0","0","0","0","0","0","0","0","0","0","0","0","0","6">>],
     [symbol |-> "USDC",
      address |-> <<"0","x","8","3","3","5","8","9","f","C","D","6","e","D","b","6","E","0","8","f","4","c","7","C","3","2","D","4","f","7","1","b","5","4","b","d","A","0","2","9","1","3">>],
     [symbol |-> "USDT",
      address |-> <<"0","x","f","d","e","4","C","9","6","c","8","5","9","3","5","3","6","E","3","1","F","2","2","9","E","A","8","f","3","7","b","2","A","D","a","2","6","9","9","b","b","2">>] >>

AddressOf(sym) ==
  PopularTokens[CHOOSE i \in 1..Len(PopularTokens) : PopularTokens[i].symbol = sym].address

VARIABLES
  config,       \* this.config, fixed by the constructor
  pc,           \* where the current calculatePaymentRoute resolution stands
  req,          \* its argument object
  quoteCalls,   \* getSwapQuote invocations made by the current resolution
  netCalls,     \* axios.get calls issued by the current resolution
  sent,         \* the HTTP request the current resolution issued, or Null
  resp,         \* the outcome of that HTTP request, or Null
  quoteResult,  \* what getSwapQuote returned to the current resolution, or Null
  result,       \* how the resolution ended: returned value or thrown error
  started,      \* resolutions started so far (also the clock of new Date())
  prevResp,     \* history: HTTP outcome delivered to the previous resolution
  repeat,       \* history: the current request equals the previous one
  \* two callers resolving routes on the same service instance
  cpc,          \* per caller: where its resolution stands
  creq,         \* per caller: the argument object of its resolution
  csent,        \* per caller: the HTTP request it issued, or Null
  cresp,        \* per caller: the outcome of that request, or Null
  cquote,       \* per caller: the local quoteResult, or Null
  cresult,      \* per caller: how its resolution ended, or Null
  cstarted,     \* resolutions started by the callers (clock of new Date())
  \* the database
  transactions, \* the rows of table "Transaction", oldest first
  users,        \* the rows of table "User", by id
  \* executeSwap
  spc,          \* where the current executeSwap call stands
  sargs,        \* its argument object
  spending,     \* its local mockSwapResult, or Null
  squote,       \* its local quoteResult (live mode), or Null
  sresult,      \* what it returned, or Null
  logWrites,    \* Transaction writes logSwapTransaction attempted in this call
  logOutcome,   \* how the last such write ended: none, pending, written, failed
  sstarted,     \* executeSwap calls started so far
  \* getServiceStats
  stpc,         \* where the current getServiceStats call stands
  swapCount,    \* its local swapCount, or Null
  stresult,     \* what it returned, or Null
  stlogged,     \* history: audit records written as completed before the call
  \* direct evaluations of the sandbox helpers
  sample,       \* the evaluation made: its inputs and what the helpers returned
  \* WalletService, called by two callers
  wpc,          \* per caller: where its WalletService call stands
  wop,          \* per caller: the method called and its arguments
  wlocal,       \* per caller: the local variables of the call
  wresult,      \* per caller: how the call ended, or Null
  wstarted,     \* WalletService calls started so far
  accountsCreated \* accounts the custody platform has created

routeVars == <<pc, req, quoteCalls, netCalls, sent, resp, quoteResult,
               result, started, prevResp, repeat>>

concVars == <<cpc, creq, csent, cresp, cquote, cresult, cstarted>>

statsVars == <<stpc, swapCount, stresult, stlogged>>

swapVars == <<spc, sargs, spending, squote, sresult, logWrites, logOutcome,
              sstarted, statsVars>>

dbVars == <<transactions, users>>

walletVars == <<wpc, wop, wlocal, wresult, wstarted, accountsCreated>>

sandboxVars == <<sample>>

vars == <<config, routeVars, concVars, swapVars, dbVars, sandboxVars, walletVars>>

\* what a step of the single-caller resolution leaves alone
nonRouteVars == <<concVars, swapVars, dbVars, sandboxVars, walletVars>>

\* what a step of the two callers leaves alone
nonConcVars == <<routeVars, swapVars, dbVars, sandboxVars, walletVars>>

\* what a step of executeSwap leaves alone
nonSwapVars == <<routeVars, concVars, sandboxVars, walletVars, users>>

\* what an evaluation of the sandbox helpers leaves alone
nonSandboxVars == <<routeVars, concVars, swapVars, dbVars, walletVars>>

\* what a step of WalletService leaves alone
nonWalletVars == <<config, routeVars, concVars, swapVars, sandboxVars>>

\* the callers of the concurrent resolutions
Calls == {1, 2}

(***************************************************************************)
(* Helpers of OKXDexService                                                *)
(***************************************************************************)
\* mutant of GetTokenSymbol: the addresses are compared as spelled
GetTokenSymbolExact(tokenAddress, chainId) ==
  LET hits == {i \in 1..Len(PopularTokens) :
                 PopularTokens[i].address = tokenAddress}
  IN  IF hits = {} THEN "UNKNOWN"
      ELSE PopularTokens[CHOOSE i \in hits : \A j \in hits : i <= j].symbol

\* getTokenSymbol: popularTokens[chainId] || popularTokens['base-sepolia'] is
\* the base-sepolia table for every chainId, as it is the only table
GetTokenSymbol(tokenAddress, chainId) ==
  LET hits == {i \in 1..Len(PopularTokens) :
                 ToLowerCase(PopularTokens[i].address) = ToLowerCase(tokenAddress)}
  IN  IF hits = {} THEN "UNKNOWN"
      ELSE PopularTokens[CHOOSE i \in hits : \A j \in hits : i <= j].symbol

\* the rates table of calculateMockSwapOutput; rates[rateKey] || 1
MockRate(fromSymbol, toSymbol) ==
  CASE fromSymbol = "ETH"  /\ toSymbol = "USDC" -> Num(2500, 0)
    [] fromSymbol = "ETH"  /\ toSymbol = "USDT" -> Num(2500, 0)
    [] fromSymbol = "USDC" /\ toSymbol = "ETH"  -> Num(4, 4)
    [] fromSymbol = "USDT" /\ toSymbol = "ETH"  -> Num(4, 4)
    [] fromSymbol = "USDC" /\ toSymbol = "USDT" -> Num(999, 3)
    [] fromSymbol = "USDT" /\ toSymbol = "USDC" -> Num(1001, 3)
    [] fromSymbol = "WETH" /\ toSymbol = "ETH"  -> Num(1, 0)
    [] fromSymbol = "ETH"  /\ toSymbol = "WETH" -> Num(1, 0)
    [] OTHER -> Num(1, 0)

\* the 0.3% fee factor of calculateMockSwapOutput
FeeFactor == Num(997, 3)

CalculateMockSwapOutput(fromToken, toToken, amount, chainId) ==
  LET fromSymbol == GetTokenSymbol(fromToken, chainId)
      toSymbol   == GetTokenSymbol(toToken, chainId)
      rate       == MockRate(fromSymbol, toSymbol)
  IN  NumToString(MulNum(MulNum(ParseFloat(amount), rate), FeeFactor))

\* crypto.createHmac('sha256', key).update(message).digest('base64'),
\* uninterpreted: equal exactly when key and message are equal
Hmac(key, message) == [alg |-> "sha256", key |-> key, message |-> message]

MockHeaders == [Content_Type |-> "application/json", X_Mock_Mode |-> "true"]

SignedHeaders(timestamp, method, requestPath, queryString, body) ==
  [Content_Type         |-> "application/json",
   OK_ACCESS_KEY        |-> config.apiKey,
   OK_ACCESS_SIGN       |-> Hmac(config.secretKey,
                                 <<timestamp, method, requestPath, queryString, body>>),
   OK_ACCESS_TIMESTAMP  |-> timestamp,
   OK_ACCESS_PASSPHRASE |-> config.passphrase,
   OK_ACCESS_PROJECT    |-> config.projectId]

GenerateAuthHeaders(timestamp, method, requestPath, queryString, body) ==
  IF config.testnetMode \/ config.apiKey = MockApiKey
  THEN MockHeaders
  ELSE SignedHeaders(timestamp, method, requestPath, queryString, body)

(***************************************************************************)
(* getSwapQuote                                                            *)
(***************************************************************************)
DefaultSlippage == "0.5"

\* mutant of SlippageOf: no default, a missing slippage stays undefined
SlippageOfNoDefault(args) ==
  IF "slippage" \in DOMAIN args THEN args.slippage ELSE "undefined"

\* the destructuring default  slippage = '0.5'
SlippageOf(args) ==
  IF "slippage" \in DOMAIN args THEN args.slippage ELSE DefaultSlippage

QuoteSuccess(data) == [success |-> TRUE, data |-> data]

QuoteFailure(message) == [success |-> FALSE, error |-> message, data |-> Null]

\* the conversion of the testnet branch; outputAmount stays the amount
\* itself for every pair the if-chain does not list
MockOutputAmount(fromSymbol, toSymbol, amount) ==
  IF fromSymbol = "ETH" /\ toSymbol = "USDC"
    THEN NumToString(MulNum(ParseFloat(amount), Num(2500, 0)))
  ELSE IF fromSymbol = "USDC" /\ toSymbol = "ETH"
    THEN NumToString(DivBy2500(ParseFloat(amount)))
  ELSE IF fromSymbol = "USDC" /\ toSymbol = "USDT"
    THEN NumToString(MulNum(ParseFloat(amount), Num(999, 3)))
  ELSE amount

MockSwapQuote(args) ==
  LET fromSymbol == GetTokenSymbol(args.fromTokenAddress, args.chainId)
      toSymbol   == GetTokenSymbol(args.toTokenAddress, args.chainId)
  IN  QuoteSuccess(
        [chainId          |-> args.chainId,
         fromTokenAddress |-> args.fromTokenAddress,
         toTokenAddress   |-> args.toTokenAddress,
         fromTokenAmount  |-> args.amount,
         toTokenAmount    |-> MockOutputAmount(fromSymbol, toSymbol, args.amount),
         estimatedGas     |-> "21000",
         tradeFee         |-> "0.1",
         priceImpact      |-> "0.01",
         route            |-> <<[dexName |-> "Uniswap V3", percentage |-> 100]>>,
         slippage         |-> SlippageOf(args)])

QuotePath == "/aggregator/quote"

QuoteTimeout == 15000

\* the axios.get request of the live branch
QuoteRequest(args, timestamp) ==
  LET queryParams ==
        [chainId           |-> args.chainId,
         fromTokenAddress  |-> args.fromTokenAddress,
         toTokenAddress    |-> args.toTokenAddress,
         amount            |-> args.amount,
         slippage          |-> SlippageOf(args),
         userWalletAddress |-> args.userWalletAddress]
  IN  [method      |-> "GET",
       requestPath |-> QuotePath,
       queryParams |-> queryParams,
       headers     |-> GenerateAuthHeaders(timestamp, "GET", QuotePath,
                                           <<"?", queryParams>>, ""),
       timestamp   |-> timestamp,
       timeout     |-> QuoteTimeout]

\* mutant of EnvelopeRejected: only an envelope with a message is an error
EnvelopeRejectedOnMsg(outcome) ==
  /\ "data" \in DOMAIN outcome
  /\ "msg" \in DOMAIN outcome.data
  /\ outcome.data.msg # ""

\* response.data?.code !== '0'
EnvelopeRejected(outcome) ==
  \/ "data" \notin DOMAIN outcome
  \/ "code" \notin DOMAIN outcome.data
  \/ outcome.data.code # "0"

\* response.data?.msg || 'Unknown error'
EnvelopeMessage(outcome) ==
  IF /\ "data" \in DOMAIN outcome
     /\ "msg" \in DOMAIN outcome.data
     /\ outcome.data.msg # ""
  THEN outcome.data.msg
  ELSE "Unknown error"

\* response.data?.data?.[0] || null
FirstQuote(outcome) ==
  IF /\ "data" \in DOMAIN outcome
     /\ "data" \in DOMAIN outcome.data
     /\ Len(outcome.data.data) > 0
  THEN outcome.data.data[1]
  ELSE Null

\* mutant of QuoteFromOutcome: a repeated request is answered from the quote
\* of the previous response
QuoteFromOutcomeCached(outcome) ==
  IF repeat /\ prevResp # Null /\ FirstQuote(prevResp) # Null
    THEN QuoteSuccess(FirstQuote(prevResp))
  ELSE IF outcome.kind = "error" THEN QuoteFailure(outcome.message)
  ELSE IF EnvelopeRejected(outcome)
    THEN QuoteFailure("OKX API Error: " \o EnvelopeMessage(outcome))
  ELSE QuoteSuccess(FirstQuote(outcome))

\* what getSwapQuote returns once axios.get has settled with outcome
QuoteFromOutcome(outcome) ==
  IF outcome.kind = "error" THEN QuoteFailure(outcome.message)
  ELSE IF EnvelopeRejected(outcome)
    THEN QuoteFailure("OKX API Error: " \o EnvelopeMessage(outcome))
  ELSE QuoteSuccess(FirstQuote(outcome))

(***************************************************************************)
(* calculatePaymentRoute                                                   *)
(***************************************************************************)
Returned(value) == [kind |-> "returned", value |-> value]

Thrown(message) == [kind |-> "thrown", error |-> message]

DirectRoute(amount) ==
  [swapRequired  |-> FALSE,
   directPayment |-> TRUE,
   inputAmount   |-> amount,
   outputAmount  |-> amount,
   route         |-> "direct"]

UnavailableRoute(message) ==
  [swapRequired |-> TRUE, swapPossible |-> FALSE, error |-> message]

ResolvedRoute(amount, data) ==
  [swapRequired |-> TRUE,
   swapPossible |-> TRUE,
   inputAmount  |-> amount,
   outputAmount |-> data.toTokenAmount,
   estimatedGas |-> data.estimatedGas,
   tradeFee     |-> data.tradeFee,
   priceImpact  |-> data.priceImpact,
   route        |-> data.route,
   slippage     |-> data.slippage]

\* mutant of SameToken: the comparison without toLowerCase
SameTokenExact(payerPreferredToken, payeeRequiredToken) ==
  payerPreferredToken = payeeRequiredToken

\* payerPreferredToken.toLowerCase() === payeeRequiredToken.toLowerCase()
SameToken(payerPreferredToken, payeeRequiredToken) ==
  ToLowerCase(payerPreferredToken) = ToLowerCase(payeeRequiredToken)

\* mutant of RouteCatch: the error is rethrown to the caller
RouteCatchRethrow(message) == Thrown(message)

\* the catch block of calculatePaymentRoute
RouteCatch(message) == Returned(UnavailableRoute(message))

\* the TypeError of reading a property of undefined or null
TypeErrorReading(what, property) ==
  "Cannot read properties of " \o what \o " (reading '" \o property \o "')"

\* the argument object calculatePaymentRoute hands to getSwapQuote
QuoteArgs(r) ==
  [chainId           |-> r.chainId,
   fromTokenAddress  |-> r.payerPreferredToken,
   toTokenAddress    |-> r.payeeRequiredToken,
   amount            |-> r.amount,
   userWalletAddress |-> r.userWalletAddress]

\* the rest of calculatePaymentRoute once getSwapQuote has returned q
RouteFromQuote(amount, q) ==
  IF ~q.success THEN Returned(UnavailableRoute(q.error))
  ELSE IF q.data = Null THEN RouteCatch(TypeErrorReading("null", "toTokenAmount"))
  ELSE Returned(ResolvedRoute(amount, q.data))

(***************************************************************************)
(* Inputs                                                                  *)
(***************************************************************************)
ChainIds == {"84532"}

WalletAddresses ==
  {<<"0","x","7","4","2","d","3","5","C","c","6","4","6","4","f","4","F","4","D","4","C","c","7","b","5","A","8","7","e","1","f","0","E","6","D","5","F","3","D","5","B","8">>}

\* listed spellings, all-lower-case spellings, and a missing token
TokenInputs ==
  {AddressOf("ETH"), ToLowerCase(AddressOf("ETH")),
   AddressOf("USDC"), ToLowerCase(AddressOf("USDC")),
   AddressOf("USDT"), Undefined}

\* amounts as decimal text, the empty string, and a missing amount
AmountInputs ==
  {<<"1">>, <<"1", "0", "0">>, <<"0">>, <<>>, <<"1", ".", "5", "0">>, Undefined}

Requests ==
  [payerPreferredToken : TokenInputs,
   payeeRequiredToken  : TokenInputs,
   amount              : AmountInputs,
   chainId             : ChainIds,
   userWalletAddress   : WalletAddresses]

\* two quotes the aggregator may answer with
ProviderQuotes ==
  {[toTokenAmount |-> <<"2", "4", "9", "0">>,
    estimatedGas  |-> "135000",
    tradeFee      |-> "0.25",
    priceImpact   |-> "0.02",
    route         |-> <<[dexName |-> "Curve", percentage |-> 100]>>,
    slippage      |-> "0.5"],
   [toTokenAmount |-> <<"2", "5", "0", "5">>,
    estimatedGas  |-> "140000",
    tradeFee      |-> "0.3",
    priceImpact   |-> "0.05",
    route         |-> <<[dexName |-> "Uniswap V3", percentage |-> 60],
                        [dexName |-> "Curve", percentage |-> 40]>>,
    slippage      |-> "0.5"]}

\* how axios.get may settle: rejection (network error, timeout), a response
\* without body, error envelopes, success envelopes with and without data
ProviderOutcomes ==
  {[kind |-> "error", message |-> "Network Error"],
   [kind |-> "error", message |-> "timeout of 15000ms exceeded"],
   [kind |-> "response"],
   [kind |-> "response", data |-> [code |-> "51000", msg |-> "Insufficient liquidity"]],
   [kind |-> "response", data |-> [code |-> "50011"]],
   [kind |-> "response", data |-> [code |-> "0", msg |-> "", data |-> <<>>]],
   [kind |-> "response", data |-> [code |-> "0", msg |-> ""]]}
  \cup
  {[kind |-> "response", data |-> [code |-> "0", msg |-> "", data |-> <<q>>]] :
     q \in ProviderQuotes}

(***************************************************************************)
(* State machine                                                           *)
(***************************************************************************)
ConcInit ==
  /\ cpc = [c \in Calls |-> "idle"]
  /\ creq = [c \in Calls |-> Null]
  /\ csent = [c \in Calls |-> Null]
  /\ cresp = [c \in Calls |-> Null]
  /\ cquote = [c \in Calls |-> Null]
  /\ cresult = [c \in Calls |-> Null]
  /\ cstarted = 0

SwapInit ==
  /\ spc = "idle"
  /\ sargs = Null
  /\ spending = Null
  /\ squote = Null
  /\ sresult = Null
  /\ logWrites = 0
  /\ logOutcome = "none"
  /\ sstarted = 0
  /\ stpc = "idle"
  /\ swapCount = Null
  /\ stresult = Null
  /\ stlogged = 0

\* the users the database holds: one with a wallet, one without
DbInit ==
  /\ transactions = <<>>
  /\ users = [u \in {"u1", "u2"} |->
               IF u = "u1"
               THEN [walletId |-> "acct-0", walletAddress |-> "0xacc0"]
               ELSE [walletId |-> NullString, walletAddress |-> NullString]]

\* the locals of a WalletService call before it has done anything
NoLocals ==
  [user          |-> Null,     \* the row getWallet read
   wallet        |-> Null,     \* what getWallet returned
   transaction   |-> 0,        \* the id of the record sendCrypto created
   sendRequest   |-> Null,     \* what was passed to cdp.evm.sendTransaction
   sendResult    |-> Null,     \* how sendTransaction settled
   sendError     |-> "",       \* the error the catch (sendError) block holds
   statusUpdate  |-> "none",   \* how the last status update ended
   account       |-> Null,     \* what cdp.evm.createAccount resolved with
   walletData    |-> Null,     \* the walletData of createWallet
   userUpdated   |-> FALSE,    \* the prisma.user.update of this call succeeded
   faucetRequest |-> Null,     \* what was passed to cdp.evm.requestFaucet
   faucetResult  |-> Null,     \* how requestFaucet settled
   balances      |-> Null]     \* how cdp.evm.listTokenBalances settled

WalletInit ==
  /\ wpc = [c \in Calls |-> "idle"]
  /\ wop = [c \in Calls |-> Null]
  /\ wlocal = [c \in Calls |-> NoLocals]
  /\ wresult = [c \in Calls |-> Null]
  /\ wstarted = 0
  /\ accountsCreated = 0

SandboxInit == sample = [op |-> "none"]

Init ==
  /\ config \in {Config(env) : env \in Envs}
  /\ ConcInit
  /\ SwapInit
  /\ DbInit
  /\ SandboxInit
  /\ WalletInit
  /\ pc = "idle"
  /\ req = Null
  /\ quoteCalls = 0
  /\ netCalls = 0
  /\ sent = Null
  /\ resp = Null
  /\ quoteResult = Null
  /\ result = Null
  /\ started = 0
  /\ prevResp = Null
  /\ repeat = FALSE

\* calculatePaymentRoute(r) up to its first suspension: the token comparison,
\* and for differing tokens the synchronous part of getSwapQuote
Call(r) ==
  /\ pc = "idle"
  /\ started < MaxCalls
  /\ started' = started + 1
  /\ req' = r
  /\ repeat' = (r = req)
  /\ resp' = Null
  /\ UNCHANGED <<config, prevResp>>
  /\ UNCHANGED nonRouteVars
  /\ IF r.payerPreferredToken = Undefined \/ r.payeeRequiredToken = Undefined
     THEN /\ result' = RouteCatch(TypeErrorReading("undefined", "toLowerCase"))
          /\ pc' = "done"
          /\ quoteCalls' = 0
          /\ netCalls' = 0
          /\ sent' = Null
          /\ quoteResult' = Null
     ELSE IF SameToken(r.payerPreferredToken, r.payeeRequiredToken)
     THEN /\ result' = Returned(DirectRoute(r.amount))
          /\ pc' = "done"
          /\ quoteCalls' = 0
          /\ netCalls' = 0
          /\ sent' = Null
          /\ quoteResult' = Null
     ELSE IF config.testnetMode
     THEN /\ quoteCalls' = 1
          /\ quoteResult' = MockSwapQuote(QuoteArgs(r))
          /\ pc' = "gotQuote"
          /\ netCalls' = 0
          /\ sent' = Null
          /\ result' = Null
     ELSE /\ quoteCalls' = 1
          /\ sent' = QuoteRequest(QuoteArgs(r), started')
          /\ netCalls' = 1
          /\ pc' = "awaitHttp"
          /\ quoteResult' = Null
          /\ result' = Null

\* mutant of AfterHttp: a rejected request is issued once more
AfterHttpRetry(outcome) ==
  IF outcome.kind = "error" /\ netCalls < 2
  THEN /\ quoteResult' = Null
       /\ pc' = "awaitHttp"
       /\ netCalls' = netCalls + 1
       /\ sent' = sent
  ELSE /\ quoteResult' = QuoteFromOutcome(outcome)
       /\ pc' = "gotQuote"
       /\ UNCHANGED <<netCalls, sent>>

\* getSwapQuote after axios.get settled: one return, through the envelope
\* check or through the catch block
AfterHttp(outcome) ==
  /\ quoteResult' = QuoteFromOutcome(outcome)
  /\ pc' = "gotQuote"
  /\ UNCHANGED <<netCalls, sent>>

\* the aggregator answers, or the request fails or times out
HttpSettle(outcome) ==
  /\ pc = "awaitHttp"
  /\ resp' = outcome
  /\ AfterHttp(outcome)
  /\ UNCHANGED <<config, req, quoteCalls, result, started, prevResp, repeat>>
  /\ UNCHANGED nonRouteVars

\* calculatePaymentRoute resumes with the quote result and returns
Resume ==
  /\ pc = "gotQuote"
  /\ result' = RouteFromQuote(req.amount, quoteResult)
  /\ pc' = "done"
  /\ UNCHANGED <<config, req, quoteCalls, netCalls, sent, resp, quoteResult,
                 started, prevResp, repeat>>
  /\ UNCHANGED nonRouteVars

\* the caller takes the result; the service is ready for the next call
Return ==
  /\ pc = "done"
  /\ pc' = "idle"
  /\ prevResp' = resp
  /\ resp' = Null
  /\ sent' = Null
  /\ quoteResult' = Null
  /\ result' = Null
  /\ quoteCalls' = 0
  /\ netCalls' = 0
  /\ UNCHANGED <<config, req, started, repeat>>
  /\ UNCHANGED nonRouteVars

Next ==
  \/ \E r \in Requests : Call(r)
  \/ \E outcome \in ProviderOutcomes : HttpSettle(outcome)
  \/ Resume
  \/ Return

Spec == Init /\ [][Next]_vars

\* axios.get is given a timeout, so every request settles, and the event loop
\* runs every continuation that is ready
FairSpec ==
  /\ Spec
  /\ WF_vars(\E outcome \in ProviderOutcomes : HttpSettle(outcome))
  /\ WF_vars(Resume)

(***************************************************************************)
(* Two callers on one service instance.  An async function runs without    *)
(* interruption between two awaits, so each action is one such stretch of  *)
(* one caller; the callers interleave at the awaits.                       *)
(***************************************************************************)
\* the requests of the concurrent callers: a direct one, two swaps, and one
\* with a missing token
ConcRequests ==
  {r \in Requests :
     \/ /\ r.payerPreferredToken = AddressOf("ETH")
        /\ r.payeeRequiredToken \in {ToLowerCase(AddressOf("ETH")), AddressOf("USDC")}
        /\ r.amount = <<"1">>
     \/ /\ r.payerPreferredToken = AddressOf("USDC")
        /\ r.payeeRequiredToken = AddressOf("USDT")
        /\ r.amount = <<"1", "0", "0">>
     \/ /\ r.payerPreferredToken = Undefined
        /\ r.payeeRequiredToken = AddressOf("USDC")
        /\ r.amount = <<"1">>}

\* mutant of HoldQuote: the quote result is kept in one field of the service
HoldQuoteShared(held, c, q) == [d \in DOMAIN held |-> q]

\* const quoteResult = await this.getSwapQuote(...): the quote result is a
\* local of the resolution that asked for it
HoldQuote(held, c, q) == [held EXCEPT ![c] = q]

\* calculatePaymentRoute(r) of caller c up to its first suspension
ConcCall(c, r) ==
  /\ cpc[c] = "idle"
  /\ cstarted < MaxCalls
  /\ cstarted' = cstarted + 1
  /\ creq' = [creq EXCEPT ![c] = r]
  /\ cresp' = [cresp EXCEPT ![c] = Null]
  /\ IF r.payerPreferredToken = Undefined \/ r.payeeRequiredToken = Undefined
     THEN /\ cresult' = [cresult EXCEPT ![c] =
                           RouteCatch(TypeErrorReading("undefined", "toLowerCase"))]
          /\ cpc' = [cpc EXCEPT ![c] = "done"]
          /\ UNCHANGED <<csent, cquote>>
     ELSE IF SameToken(r.payerPreferredToken, r.payeeRequiredToken)
     THEN /\ cresult' = [cresult EXCEPT ![c] = Returned(DirectRoute(r.amount))]
          /\ cpc' = [cpc EXCEPT ![c] = "done"]
          /\ UNCHANGED <<csent, cquote>>
     ELSE IF config.testnetMode
     THEN /\ cquote' = HoldQuote(cquote, c, MockSwapQuote(QuoteArgs(r)))
          /\ cpc' = [cpc EXCEPT ![c] = "gotQuote"]
          /\ UNCHANGED <<csent, cresult>>
     ELSE /\ csent' = [csent EXCEPT ![c] = QuoteRequest(QuoteArgs(r), cstarted')]
          /\ cpc' = [cpc EXCEPT ![c] = "awaitHttp"]
          /\ UNCHANGED <<cquote, cresult>>
  /\ UNCHANGED config
  /\ UNCHANGED nonConcVars

\* the HTTP request of caller c settles and its getSwapQuote returns
ConcSettle(c, outcome) ==
  /\ cpc[c] = "awaitHttp"
  /\ cresp' = [cresp EXCEPT ![c] = outcome]
  /\ cquote' = HoldQuote(cquote, c, QuoteFromOutcome(outcome))
  /\ cpc' = [cpc EXCEPT ![c] = "gotQuote"]
  /\ UNCHANGED <<config, creq, csent, cresult, cstarted>>
  /\ UNCHANGED nonConcVars

\* calculatePaymentRoute of caller c resumes with its quote result
ConcResume(c) ==
  /\ cpc[c] = "gotQuote"
  /\ cresult' = [cresult EXCEPT ![c] = RouteFromQuote(creq[c].amount, cquote[c])]
  /\ cpc' = [cpc EXCEPT ![c] = "done"]
  /\ UNCHANGED <<config, creq, csent, cresp, cquote, cstarted>>
  /\ UNCHANGED nonConcVars

\* caller c takes its result
ConcReturn(c) ==
  /\ cpc[c] = "done"
  /\ cpc' = [cpc EXCEPT ![c] = "idle"]
  /\ creq' = [creq EXCEPT ![c] = Null]
  /\ csent' = [csent EXCEPT ![c] = Null]
  /\ cresp' = [cresp EXCEPT ![c] = Null]
  /\ cquote' = [cquote EXCEPT ![c] = Null]
  /\ cresult' = [cresult EXCEPT ![c] = Null]
  /\ UNCHANGED <<config, cstarted>>
  /\ UNCHANGED nonConcVars

ConcNext ==
  \/ \E c \in Calls, r \in ConcRequests : ConcCall(c, r)
  \/ \E c \in Calls, outcome \in ProviderOutcomes : ConcSettle(c, outcome)
  \/ \E c \in Calls : ConcResume(c)
  \/ \E c \in Calls : ConcReturn(c)

ConcSpec == Init /\ [][ConcNext]_vars

(***************************************************************************)
(* The relational store                                                    *)
(***************************************************************************)
\* the columns of table "Transaction"
TransactionColumns ==
  {"id", "userId", "type", "status", "amount", "currency", "network",
   "description", "toAddress", "fromAddress", "txHash", "x402PayId",
   "relatedRequestId", "paymentId", "paymentLink", "recipientEmail",
   "emailSent", "emailSentAt", "completedAt", "createdAt", "updatedAt"}

\* the NOT NULL columns without a database default that the client does not
\* fill in by itself (it generates id and updatedAt)
TransactionRequired == {"userId", "type", "status", "amount"}

\* prisma.transaction.create({data}) is accepted only for known columns with
\* every required column given
TransactionAccepts(data) ==
  /\ DOMAIN data \subseteq TransactionColumns
  /\ TransactionRequired \subseteq DOMAIN data

(***************************************************************************)
(* executeSwap and logSwapTransaction                                      *)
(***************************************************************************)
\* crypto.randomBytes(32).toString('hex'), prefixed with 0x
RandomHashes == {"0x3fa1", "0x9c07"}

\* crypto.randomUUID(), one value per row written
RandomUuids == <<"uuid-1", "uuid-2", "uuid-3", "uuid-4">>

SwapArgs ==
  [chainId           : ChainIds,
   fromTokenAddress  : {AddressOf("ETH"), AddressOf("USDC"), Undefined},
   toTokenAddress    : {AddressOf("USDC"), ToLowerCase(AddressOf("USDT"))},
   amount            : {<<"1">>, <<"1", "0", "0">>},
   userWalletAddress : WalletAddresses,
   paymentRequestId  : {NullString, "", "pr_42"}]

SwapFailure(message) == [success |-> FALSE, error |-> message]

MockSwapResult(args, hash, explorerHash, timestamp) ==
  [success         |-> TRUE,
   transactionHash |-> hash,
   fromTokenAmount |-> args.amount,
   toTokenAmount   |-> CalculateMockSwapOutput(args.fromTokenAddress,
                                               args.toTokenAddress,
                                               args.amount, args.chainId),
   gasUsed         |-> "21000",
   gasPrice        |-> "20000000000",
   tradeFee        |-> "0.1",
   timestamp       |-> timestamp,
   explorerUrl     |-> "https://sepolia.basescan.org/tx/" \o explorerHash]

\* the swapData argument executeSwap hands to logSwapTransaction
SwapLogData(args, mockSwapResult) ==
  [paymentRequestId |-> args.paymentRequestId,
   fromToken        |-> args.fromTokenAddress,
   toToken          |-> args.toTokenAddress,
   fromAmount       |-> args.amount,
   toAmount         |-> mockSwapResult.toTokenAmount,
   transactionHash  |-> mockSwapResult.transactionHash,
   chainId          |-> args.chainId,
   status           |-> "completed"]

\* the data of the prisma.transaction.create call in logSwapTransaction
SwapTransactionRow(swapData, uuid, now) ==
  [id          |-> uuid,
   type        |-> "SWAP",
   status      |-> IF swapData.status # "" THEN swapData.status ELSE "PENDING",
   amount      |-> ParseFloat(swapData.fromAmount),
   currency    |-> GetTokenSymbol(swapData.fromToken, swapData.chainId),
   toAddress   |-> swapData.toToken,
   fromAddress |-> swapData.fromToken,
   txHash      |-> swapData.transactionHash,
   network     |-> swapData.chainId,
   metadata    |-> [paymentRequestId |-> swapData.paymentRequestId,
                    fromToken        |-> swapData.fromToken,
                    toToken          |-> swapData.toToken,
                    fromAmount       |-> swapData.fromAmount,
                    toAmount         |-> swapData.toAmount,
                    swapProvider     |-> "OKX_DEX"],
   createdAt   |-> now,
   updatedAt   |-> now]

\* mutant of LogSwapTransactionEnds: the write error leaves logSwapTransaction
LogSwapTransactionEndsThrowing(written) ==
  IF written THEN "returned" ELSE "threw"

\* how logSwapTransaction ends: its catch block logs the error and returns
LogSwapTransactionEnds(written) == "returned"

\* the body of a swap answer: data[0] with the transaction to broadcast
ProviderSwaps ==
  {[routerResult |-> "route-1", data |-> "0xa9059cbb"],
   [routerResult |-> "route-2"]}

SwapOutcomes ==
  {[kind |-> "error", message |-> "timeout of 30000ms exceeded"],
   [kind |-> "response"],
   [kind |-> "response", data |-> [code |-> "82000", msg |-> "Insufficient liquidity"]],
   [kind |-> "response", data |-> [code |-> "0", msg |-> "", data |-> <<>>]]}
  \cup
  {[kind |-> "response", data |-> [code |-> "0", msg |-> "", data |-> <<d>>]] :
     d \in ProviderSwaps}

\* what executeSwap returns once the swap request has settled with outcome
SwapResultFromOutcome(outcome) ==
  IF outcome.kind = "error" THEN SwapFailure(outcome.message)
  ELSE IF EnvelopeRejected(outcome)
    THEN SwapFailure("OKX Swap Error: " \o EnvelopeMessage(outcome))
  ELSE IF FirstQuote(outcome) = Null
    THEN SwapFailure("No swap data received from OKX API")
  ELSE [success         |-> TRUE,
        data            |-> FirstQuote(outcome),
        transactionData |-> IF "data" \in DOMAIN FirstQuote(outcome)
                            THEN FirstQuote(outcome).data ELSE "undefined"]

\* executeSwap(args) up to its first suspension
SwapCall(args, hash, explorerHash) ==
  /\ spc = "idle"
  /\ sstarted < MaxCalls
  /\ sstarted' = sstarted + 1
  /\ sargs' = args
  /\ squote' = Null
  /\ IF config.testnetMode
     THEN IF args.fromTokenAddress = Undefined \/ args.toTokenAddress = Undefined
          THEN \* getTokenSymbol throws on tokenAddress.toLowerCase()
               /\ sresult' = SwapFailure(TypeErrorReading("undefined", "toLowerCase"))
               /\ spc' = "done"
               /\ spending' = Null
               /\ logWrites' = 0
               /\ logOutcome' = "none"
          ELSE /\ spending' = MockSwapResult(args, hash, explorerHash, sstarted')
               /\ IF Truthy(args.paymentRequestId)
                  THEN /\ spc' = "logging"
                       /\ logWrites' = 1
                       /\ logOutcome' = "pending"
                       /\ sresult' = Null
                  ELSE /\ spc' = "done"
                       /\ logWrites' = 0
                       /\ logOutcome' = "none"
                       /\ sresult' = spending'
     ELSE /\ spc' = "awaitQuote"
          /\ spending' = Null
          /\ sresult' = Null
          /\ logWrites' = 0
          /\ logOutcome' = "none"
  /\ UNCHANGED <<config, transactions, statsVars>>
  /\ UNCHANGED nonSwapVars

\* the prisma.transaction.create of logSwapTransaction settles; executeSwap
\* resumes and returns.  The table of the migration does not take the row
\* (TransactionAccepts); laterSchema stands for a client generated from a
\* later Transaction model that does.
LogSettle(dbUp, laterSchema, uuid) ==
  /\ spc = "logging"
  /\ LET row     == SwapTransactionRow(SwapLogData(sargs, spending), uuid, sstarted)
         written == dbUp /\ (laterSchema \/ TransactionAccepts(row))
     IN  /\ transactions' = IF written THEN Append(transactions, row)
                                      ELSE transactions
         /\ logOutcome' = IF written THEN "written" ELSE "failed"
         /\ sresult' = IF LogSwapTransactionEnds(written) = "threw"
                       THEN SwapFailure("Invalid prisma.transaction.create() invocation")
                       ELSE spending
  /\ spc' = "done"
  /\ UNCHANGED <<config, sargs, spending, squote, logWrites, sstarted,
                 statsVars>>
  /\ UNCHANGED nonSwapVars

\* live mode: the quote request settles; executeSwap gives up or asks for the swap
SwapQuoteSettle(outcome) ==
  /\ spc = "awaitQuote"
  /\ squote' = QuoteFromOutcome(outcome)
  /\ IF ~squote'.success
     THEN /\ sresult' = SwapFailure("Failed to get quote: " \o squote'.error)
          /\ spc' = "done"
     ELSE /\ sresult' = Null
          /\ spc' = "awaitSwap"
  /\ UNCHANGED <<config, sargs, spending, logWrites, logOutcome, sstarted,
                 transactions, statsVars>>
  /\ UNCHANGED nonSwapVars

\* live mode: the swap request settles and executeSwap returns
SwapSettle(outcome) ==
  /\ spc = "awaitSwap"
  /\ sresult' = SwapResultFromOutcome(outcome)
  /\ spc' = "done"
  /\ UNCHANGED <<config, sargs, spending, squote, logWrites, logOutcome,
                 sstarted, transactions, statsVars>>
  /\ UNCHANGED nonSwapVars

\* the caller takes the result of executeSwap
SwapReturn ==
  /\ spc = "done"
  /\ spc' = "idle"
  /\ sresult' = Null
  /\ spending' = Null
  /\ squote' = Null
  /\ logWrites' = 0
  /\ logOutcome' = "none"
  /\ UNCHANGED <<config, sargs, sstarted, transactions, statsVars>>
  /\ UNCHANGED nonSwapVars

\* the chains listed in this.supportedChains
SupportedChains == {"base-sepolia", "ethereum", "polygon"}

\* prisma.transaction.count({where}): the rows whose fields equal where's,
\* strings compared as spelled
CountWhere(where) ==
  Cardinality({i \in 1..Len(transactions) :
                 \A k \in DOMAIN where :
                   /\ k \in DOMAIN transactions[i]
                   /\ transactions[i][k] = where[k]})

\* (completedSwaps / swapCount * 100).toFixed(2), or 0 without swaps
SuccessRate(completedSwaps, count) ==
  IF count > 0
  THEN ToFixed2(Num((completedSwaps * 1000000) \div count, 4))
  ELSE Num(0, 0)

\* the object getServiceStats returns from its try block
ServiceStats(count, completedSwaps) ==
  [totalSwaps      |-> count,
   completedSwaps  |-> completedSwaps,
   successRate     |-> SuccessRate(completedSwaps, count),
   supportedChains |-> Cardinality(SupportedChains),
   testnetMode     |-> config.testnetMode]

\* the object getServiceStats returns from its catch block
ServiceStatsCaught ==
  [totalSwaps      |-> 0,
   completedSwaps  |-> 0,
   successRate     |-> Num(0, 0),
   supportedChains |-> Cardinality(SupportedChains),
   testnetMode     |-> config.testnetMode]

\* the audit records logSwapTransaction has written with the status
\* executeSwap hands it, completed
LoggedCompleted == CountWhere([type |-> "SWAP", status |-> "completed"])

\* getServiceStats() up to its first count
GetServiceStatsCall ==
  /\ stpc = "idle"
  /\ stpc' = "countAll"
  /\ swapCount' = Null
  /\ stresult' = Null
  /\ stlogged' = LoggedCompleted
  /\ UNCHANGED <<config, spc, sargs, spending, squote, sresult, logWrites,
                 logOutcome, sstarted, transactions>>
  /\ UNCHANGED nonSwapVars

\* the count of the SWAP rows settles
CountAllSettle(dbUp) ==
  /\ stpc = "countAll"
  /\ IF dbUp
     THEN /\ swapCount' = CountWhere([type |-> "SWAP"])
          /\ stpc' = "countCompleted"
          /\ stresult' = Null
     ELSE /\ swapCount' = swapCount
          /\ stpc' = "caught"
          /\ stresult' = ServiceStatsCaught
  /\ UNCHANGED <<config, spc, sargs, spending, squote, sresult, logWrites,
                 logOutcome, sstarted, stlogged, transactions>>
  /\ UNCHANGED nonSwapVars

\* the count of the completed SWAP rows settles and getServiceStats returns
CountCompletedSettle(dbUp) ==
  /\ stpc = "countCompleted"
  /\ IF dbUp
     THEN /\ stpc' = "returned"
          /\ stresult' = ServiceStats(swapCount,
                            CountWhere([type |-> "SWAP", status |-> "COMPLETED"]))
     ELSE /\ stpc' = "caught"
          /\ stresult' = ServiceStatsCaught
  /\ UNCHANGED <<config, spc, sargs, spending, squote, sresult, logWrites,
                 logOutcome, sstarted, swapCount, stlogged, transactions>>
  /\ UNCHANGED nonSwapVars

\* the caller takes the result of getServiceStats
StatsReturn ==
  /\ stpc \in {"returned", "caught"}
  /\ stpc' = "idle"
  /\ swapCount' = Null
  /\ stresult' = Null
  /\ UNCHANGED <<config, spc, sargs, spending, squote, sresult, logWrites,
                 logOutcome, sstarted, stlogged, transactions>>
  /\ UNCHANGED nonSwapVars

\* the swaps made while the statistics are read
StatsSwapArgs ==
  {args \in SwapArgs :
     /\ args.fromTokenAddress = AddressOf("ETH")
     /\ args.toTokenAddress = AddressOf("USDC")
     /\ args.amount = <<"1">>
     /\ args.paymentRequestId \in {NullString, "pr_42"}}

\* executeSwap and getServiceStats on one service, the database taking the
\* audit rows or not
StatsNext ==
  \/ GetServiceStatsCall
  \/ \E dbUp \in BOOLEAN : CountAllSettle(dbUp)
  \/ \E dbUp \in BOOLEAN : CountCompletedSettle(dbUp)
  \/ StatsReturn
  \/ \E args \in StatsSwapArgs, hash \in RandomHashes : SwapCall(args, hash, hash)
  \/ \E dbUp \in BOOLEAN, laterSchema \in BOOLEAN :
       LogSettle(dbUp, laterSchema, RandomUuids[Len(transactions) + 1])
  \/ \E outcome \in ProviderOutcomes : SwapQuoteSettle(outcome)
  \/ \E outcome \in SwapOutcomes : SwapSettle(outcome)
  \/ SwapReturn

StatsSpec == Init /\ [][StatsNext]_vars

\* executeSwap against the Transaction table of the migration
SwapNext ==
  \/ \E args \in SwapArgs, hash \in RandomHashes, explorerHash \in RandomHashes :
       SwapCall(args, hash, explorerHash)
  \/ \E dbUp \in BOOLEAN, laterSchema \in {FALSE} :
       LogSettle(dbUp, laterSchema, RandomUuids[Len(transactions) + 1])
  \/ \E outcome \in ProviderOutcomes : SwapQuoteSettle(outcome)
  \/ \E outcome \in SwapOutcomes : SwapSettle(outcome)
  \/ SwapReturn

SwapSpec == Init /\ [][SwapNext]_vars

(***************************************************************************)
(* The sandbox helpers evaluated on their own                              *)
(***************************************************************************)
UpperChar(ch) ==
  CASE ch = "a" -> "A" [] ch = "b" -> "B" [] ch = "c" -> "C"
    [] ch = "d" -> "D" [] ch = "e" -> "E" [] ch = "f" -> "F"
    [] ch = "x" -> "X"
    [] ch = "h" -> "H" [] ch = "s" -> "S" [] ch = "t" -> "T"
    [] ch = "u" -> "U"
    [] OTHER -> ch

\* an address nobody listed in popularTokens
UnlistedAddress ==
  <<"0","x","d","A","C","1","7","F","9","5","8","D","2","e","e","5","2","3","a","2","2","0","6","2","0","6","9","9","4","5","9","7","C","1","3","D","8","3","1","e","c","7">>

SandboxAddresses == {t.address : t \in {PopularTokens[i] : i \in 1..Len(PopularTokens)}}
                    \cup {UnlistedAddress}

\* the spellings of an address that differ in letter case only
Spellings(address) ==
  {address, ToLowerCase(address), [i \in 1..Len(address) |-> UpperChar(address[i])]}

\* getSwapQuote on (from, to) and on re-spelled addresses, sandbox mode
QuoteRespelled(chainId, from, to, fromSpelled, toSpelled, amount) ==
  /\ config.testnetMode
  /\ sample.op = "none"
  /\ LET args == [chainId |-> chainId, fromTokenAddress |-> from,
                  toTokenAddress |-> to, amount |-> amount,
                  userWalletAddress |-> Undefined]
         spelled == [args EXCEPT !.fromTokenAddress = fromSpelled,
                                 !.toTokenAddress = toSpelled]
     IN  sample' = [op            |-> "respell",
                    args          |-> args,
                    spelled       |-> spelled,
                    symbols       |-> <<GetTokenSymbol(from, chainId),
                                        GetTokenSymbol(to, chainId)>>,
                    spelledSymbols |-> <<GetTokenSymbol(fromSpelled, chainId),
                                         GetTokenSymbol(toSpelled, chainId)>>,
                    quote         |-> MockSwapQuote(args),
                    spelledQuote  |-> MockSwapQuote(spelled)]
  /\ UNCHANGED config
  /\ UNCHANGED nonSandboxVars

\* amounts of a round trip, as decimal text
RoundTripAmounts ==
  {<<"1">>, <<"1", "0", "0">>, <<"0", ".", "0", "0", "1">>,
   <<"1", "e", "3", "0", "4">>, <<"1", "e", "3", "0", "6">>,
   <<"5", "e", "-", "3", "2", "4">>}

\* the amount one sandbox conversion yields: the quote of getSwapQuote or
\* the output of calculateMockSwapOutput
SandboxConvert(via, chainId, from, to, amount) ==
  IF via = "getSwapQuote"
  THEN MockSwapQuote([chainId |-> chainId, fromTokenAddress |-> from,
                      toTokenAddress |-> to, amount |-> amount,
                      userWalletAddress |-> Undefined]).data.toTokenAmount
  ELSE CalculateMockSwapOutput(from, to, amount, chainId)

\* the round trips evaluated: every pair of addresses through either helper,
\* but for USDC <-> USDT through calculateMockSwapOutput, whose four factors
\* 0.999 * 0.997 * 1.001 * 0.997 have more digits than a mantissa here holds
RoundTripEvaluated(via, chainId, a, b) ==
  \/ via = "getSwapQuote"
  \/ {GetTokenSymbol(a, chainId), GetTokenSymbol(b, chainId)} # {"USDC", "USDT"}

\* A -> B, then the amount received B -> A
RoundTrip(via, chainId, a, b, amount) ==
  /\ config.testnetMode
  /\ sample.op = "none"
  /\ RoundTripEvaluated(via, chainId, a, b)
  /\ LET out == SandboxConvert(via, chainId, a, b, amount)
     IN  sample' = [op     |-> "roundTrip",
                    via    |-> via,
                    from   |-> a,
                    to     |-> b,
                    amount |-> amount,
                    out    |-> out,
                    back   |-> SandboxConvert(via, chainId, b, a, out)]
  /\ UNCHANGED config
  /\ UNCHANGED nonSandboxVars

\* the addresses listed in popularTokens
ListedAddresses == {PopularTokens[i].address : i \in 1..Len(PopularTokens)}

\* the same swap quoted by getSwapQuote and executed by executeSwap, which
\* takes its toTokenAmount from calculateMockSwapOutput
QuoteAndExecute(chainId, from, to, amount) ==
  /\ config.testnetMode
  /\ sample.op = "none"
  /\ sample' = [op       |-> "quoteExecute",
                from     |-> from,
                to       |-> to,
                amount   |-> amount,
                quoted   |-> SandboxConvert("getSwapQuote", chainId, from, to, amount),
                executed |-> CalculateMockSwapOutput(from, to, amount, chainId)]
  /\ UNCHANGED config
  /\ UNCHANGED nonSandboxVars

SandboxNext ==
  \/ \E chainId \in ChainIds, from \in ListedAddresses, to \in ListedAddresses,
        amount \in {<<"1">>, <<"1", "0", "0">>} :
       QuoteAndExecute(chainId, from, to, amount)
  \/ \E chainId \in ChainIds, from \in SandboxAddresses, to \in SandboxAddresses,
        amount \in {<<"1">>, <<"1", "0", "0">>} :
       \E fromSpelled \in Spellings(from), toSpelled \in Spellings(to) :
         QuoteRespelled(chainId, from, to, fromSpelled, toSpelled, amount)
  \/ \E via \in {"getSwapQuote", "calculateMockSwapOutput"}, chainId \in ChainIds,
        a \in SandboxAddresses, b \in SandboxAddresses, amount \in RoundTripAmounts :
       RoundTrip(via, chainId, a, b, amount)

SandboxSpec == Init /\ [][SandboxNext]_vars

(***************************************************************************)
(* WalletService                                                           *)
(***************************************************************************)
\* this.initialized of a constructed service: setupCDP sets it or throws
Initialized == TRUE

BaseSepolia == <<"b","a","s","e","-","s","e","p","o","l","i","a">>

BaseMainnet == <<"b","a","s","e","-","m","a","i","n","n","e","t">>

ArbitrumTestnet == <<"a","r","b","-","t","e","s","t","n","e","t">>

WalletNetworks == {BaseSepolia, BaseMainnet, ArbitrumTestnet}

WalletUserIds == {"u1", "u2", "u9"}

\* String.prototype.includes
Includes(str, part) ==
  \E i \in 1..(Len(str) - Len(part) + 1) :
    SubSeq(str, i, i + Len(part) - 1) = part

\* network.includes('sepolia') || network.includes('testnet')
FaucetNetwork(network) ==
  \/ Includes(network, <<"s","e","p","o","l","i","a">>)
  \/ Includes(network, <<"t","e","s","t","n","e","t">>)

\* the addresses of the accounts the custody platform creates, in order
AccountAddresses == <<"0xacc1", "0xacc2", "0xacc3", "0xacc4">>

AccountIds == <<"acct-1", "acct-2", "acct-3", "acct-4">>

\* account.id || `user_${userId}_account`
WalletIdOf(account, userId) ==
  IF "id" \in DOMAIN account THEN account.id ELSE "user_" \o userId \o "_account"

WalletData(account, userId, network) ==
  [walletId |-> WalletIdOf(account, userId),
   address  |-> account.address,
   network  |-> network]

\* prisma.user.findUnique({where: {id}}): the row, or null
FindUser(userId) == IF userId \in DOMAIN users THEN users[userId] ELSE Null

\* mutant of WalletMissing: getWallet returns whatever the row holds
WalletMissingNever(user) == FALSE

\* !user?.walletAddress
WalletMissing(user) == user = Null \/ ~Truthy(user.walletAddress)

\* what getWallet returns for the row it read
WalletOf(user) ==
  [walletId |-> IF user = Null THEN "undefined" ELSE user.walletId,
   address  |-> IF user = Null THEN "undefined" ELSE user.walletAddress,
   network  |-> BaseSepolia]

\* the data of the prisma.transaction.create call in sendCrypto
SendTransactionRow(op, fromAddress) ==
  [userId      |-> op.userId,
   type        |-> "SEND",
   status      |-> "PROCESSING",
   amount      |-> ParseFloat(op.amount),
   currency    |-> op.currency.upper,
   description |-> <<"Send ", op.amount, " ", op.currency.text, " to ", op.toAddress>>,
   toAddress   |-> op.toAddress,
   fromAddress |-> fromAddress]

\* the request of cdp.evm.sendTransaction
SendRequest(op, wallet) ==
  [address     |-> wallet.address,
   network     |-> wallet.network,
   transaction |-> [to    |-> op.toAddress,
                    value |-> IF op.currency.upper = "ETH" THEN op.amount
                                                          ELSE <<"0">>,
                    data  |-> "0x"]]

SendSuccess(op, transactionId, txHash) ==
  [success         |-> TRUE,
   transactionId   |-> transactionId,
   transactionHash |-> txHash,
   amount          |-> op.amount,
   currency        |-> op.currency.text,
   toAddress       |-> op.toAddress]

\* the position of the Transaction row with the given id
RowOf(id) == CHOOSE i \in 1..Len(transactions) : transactions[i].id = id

\* a currency as given and as currency.toUpperCase() makes it
Currencies == {[text |-> "eth", upper |-> "ETH"], [text |-> "USDC", upper |-> "USDC"]}

SendOutcomes ==
  {[kind |-> "ok", transactionHash |-> "0x9c07"],
   [kind |-> "error", message |-> "insufficient funds"]}

DbError == "Can't reach database server"

\* a call ends: the value returned or the error thrown reaches the caller
Ends(c, how) ==
  /\ wpc' = [wpc EXCEPT ![c] = "done"]
  /\ wresult' = [wresult EXCEPT ![c] = how]

Continues(c, at) ==
  /\ wpc' = [wpc EXCEPT ![c] = at]
  /\ UNCHANGED wresult

Starts(c, op) ==
  /\ wpc[c] = "idle"
  /\ wstarted < MaxCalls
  /\ wstarted' = wstarted + 1
  /\ wop' = [wop EXCEPT ![c] = op]
  /\ wlocal' = [wlocal EXCEPT ![c] = NoLocals]
  /\ IF ~Initialized THEN Ends(c, Thrown("CDP not initialized"))
     ELSE Continues(c, IF op.name = "createWallet" THEN "createAccount"
                                                   ELSE "getWallet")
  /\ UNCHANGED <<dbVars, accountsCreated>>
  /\ UNCHANGED nonWalletVars

\* createWallet(userId, network) up to the await of cdp.evm.createAccount
CreateWalletCall(c, userId, network) ==
  /\ network \in WalletNetworks
  /\ Starts(c, [name |-> "createWallet", userId |-> userId, network |-> network])

\* createAccount settles; on success walletData is built and
\* prisma.user.update is issued
CreateAccountSettle(c, ok, hasId) ==
  /\ wpc[c] = "createAccount"
  /\ IF ok
     THEN LET k       == accountsCreated + 1
              account == IF hasId
                         THEN [address |-> AccountAddresses[k], id |-> AccountIds[k]]
                         ELSE [address |-> AccountAddresses[k]]
          IN  /\ accountsCreated' = k
              /\ wlocal' = [wlocal EXCEPT
                              ![c].account = account,
                              ![c].walletData =
                                 WalletData(account, wop[c].userId, wop[c].network)]
              /\ Continues(c, "userUpdate")
     ELSE /\ Ends(c, Thrown("createAccount failed"))
          /\ UNCHANGED <<wlocal, accountsCreated>>
  /\ UNCHANGED <<dbVars, wop, wstarted>>
  /\ UNCHANGED nonWalletVars

\* prisma.user.update settles; on success the faucet is asked on a test
\* network, or createWallet returns
UserUpdateSettle(c, dbUp) ==
  /\ wpc[c] = "userUpdate"
  /\ IF dbUp /\ wop[c].userId \in DOMAIN users
     THEN /\ users' = [users EXCEPT ![wop[c].userId] =
                         [walletId      |-> wlocal[c].walletData.walletId,
                          walletAddress |-> wlocal[c].walletData.address]]
          /\ IF FaucetNetwork(wop[c].network)
             THEN /\ wlocal' = [wlocal EXCEPT
                                  ![c].userUpdated = TRUE,
                                  ![c].faucetRequest =
                                     [address |-> wlocal[c].walletData.address,
                                      network |-> wop[c].network,
                                      token   |-> "eth"]]
                  /\ Continues(c, "faucet")
             ELSE /\ wlocal' = [wlocal EXCEPT ![c].userUpdated = TRUE]
                  /\ Ends(c, Returned(wlocal[c].walletData))
     ELSE /\ Ends(c, Thrown(IF dbUp THEN "Record to update not found."
                                   ELSE DbError))
          /\ UNCHANGED <<users, wlocal>>
  /\ UNCHANGED <<transactions, wop, wstarted, accountsCreated>>
  /\ UNCHANGED nonWalletVars

\* mutant of FaucetCatch: the faucet error leaves createWallet
FaucetCatchRethrow(walletData, outcome) ==
  IF outcome.kind = "ok" THEN Returned(walletData) ELSE Thrown(outcome.message)

\* the end of createWallet after requestFaucet settled: the inner catch
\* only warns
FaucetCatch(walletData, outcome) == Returned(walletData)

FaucetOutcomes ==
  {[kind |-> "ok", transactionHash |-> "0x3fa1"],
   [kind |-> "error", message |-> "faucet rate limit"]}

\* requestFaucet settles and createWallet returns
FaucetSettle(c, outcome) ==
  /\ wpc[c] = "faucet"
  /\ wlocal' = [wlocal EXCEPT ![c].faucetResult = outcome]
  /\ Ends(c, FaucetCatch(wlocal[c].walletData, outcome))
  /\ UNCHANGED <<dbVars, wop, wstarted, accountsCreated>>
  /\ UNCHANGED nonWalletVars

\* sendCrypto(userId, toAddress, amount, currency) up to the await of the
\* prisma.user.findUnique in getWallet
SendCryptoCall(c, userId, toAddress, amount, currency) ==
  /\ currency \in Currencies
  /\ Starts(c, [name |-> "sendCrypto", userId |-> userId, toAddress |-> toAddress,
                amount |-> amount, currency |-> currency])

\* findUnique settles: getWallet throws or returns the wallet, and sendCrypto
\* rethrows or issues prisma.transaction.create
GetWalletSettle(c, dbUp) ==
  /\ wpc[c] = "getWallet"
  /\ IF ~dbUp
     THEN /\ Ends(c, Thrown(DbError))
          /\ UNCHANGED wlocal
     ELSE LET user == FindUser(wop[c].userId)
          IN  IF WalletMissing(user)
              THEN /\ wlocal' = [wlocal EXCEPT ![c].user = user]
                   /\ Ends(c, Thrown("Wallet not found for user"))
              ELSE /\ wlocal' = [wlocal EXCEPT ![c].user = user,
                                               ![c].wallet = WalletOf(user)]
                   /\ Continues(c, "createRecord")
  /\ UNCHANGED <<dbVars, wop, wstarted, accountsCreated>>
  /\ UNCHANGED nonWalletVars

\* transaction.create settles: the record exists as PROCESSING and
\* sendTransaction is called, or sendCrypto rethrows
CreateRecordSettle(c, dbUp) ==
  /\ wpc[c] = "createRecord"
  /\ LET data == SendTransactionRow(wop[c], wlocal[c].wallet.address)
         id   == Len(transactions) + 1
     IN  IF dbUp /\ TransactionAccepts(data)
         THEN /\ transactions' =
                   Append(transactions, data @@ [id |-> id, txHash |-> NullString])
              /\ wlocal' = [wlocal EXCEPT
                              ![c].transaction = id,
                              ![c].sendRequest = SendRequest(wop[c], wlocal[c].wallet)]
              /\ Continues(c, "send")
         ELSE /\ Ends(c, Thrown(DbError))
              /\ UNCHANGED <<transactions, wlocal>>
  /\ UNCHANGED <<users, wop, wstarted, accountsCreated>>
  /\ UNCHANGED nonWalletVars

\* sendTransaction settles: the PENDING update is issued, or the catch
\* (sendError) block issues the FAILED update
SendSettle(c, outcome) ==
  /\ wpc[c] = "send"
  /\ IF outcome.kind = "ok"
     THEN /\ wlocal' = [wlocal EXCEPT ![c].sendResult = outcome]
          /\ Continues(c, "markPending")
     ELSE /\ wlocal' = [wlocal EXCEPT ![c].sendResult = outcome,
                                      ![c].sendError = outcome.message]
          /\ Continues(c, "markFailed")
  /\ UNCHANGED <<dbVars, wop, wstarted, accountsCreated>>
  /\ UNCHANGED nonWalletVars

\* the PENDING update settles: sendCrypto returns success, or the rejection
\* is caught by the catch (sendError) block, which issues the FAILED update
MarkPendingSettle(c, dbUp) ==
  /\ wpc[c] = "markPending"
  /\ IF dbUp
     THEN /\ transactions' =
               [transactions EXCEPT
                  ![RowOf(wlocal[c].transaction)].txHash =
                     wlocal[c].sendResult.transactionHash,
                  ![RowOf(wlocal[c].transaction)].status = "PENDING"]
          /\ wlocal' = [wlocal EXCEPT ![c].statusUpdate = "ok"]
          /\ Ends(c, Returned(SendSuccess(wop[c], wlocal[c].transaction,
                                          wlocal[c].sendResult.transactionHash)))
     ELSE /\ wlocal' = [wlocal EXCEPT ![c].statusUpdate = "failed",
                                      ![c].sendError = DbError]
          /\ Continues(c, "markFailed")
          /\ UNCHANGED transactions
  /\ UNCHANGED <<users, wop, wstarted, accountsCreated>>
  /\ UNCHANGED nonWalletVars

\* the FAILED update settles: sendError is rethrown, or the rejection of the
\* update is what sendCrypto throws
MarkFailedSettle(c, dbUp) ==
  /\ wpc[c] = "markFailed"
  /\ IF dbUp
     THEN /\ transactions' =
               [transactions EXCEPT
                  ![RowOf(wlocal[c].transaction)].status = "FAILED"]
          /\ wlocal' = [wlocal EXCEPT ![c].statusUpdate = "ok"]
          /\ Ends(c, Thrown(wlocal[c].sendError))
     ELSE /\ wlocal' = [wlocal EXCEPT ![c].statusUpdate = "failed"]
          /\ Ends(c, Thrown(DbError))
          /\ UNCHANGED transactions
  /\ UNCHANGED <<users, wop, wstarted, accountsCreated>>
  /\ UNCHANGED nonWalletVars

\* the caller takes the outcome of its call
WalletReturn(c) ==
  /\ wpc[c] = "done"
  /\ wpc' = [wpc EXCEPT ![c] = "idle"]
  /\ wresult' = [wresult EXCEPT ![c] = Null]
  /\ wlocal' = [wlocal EXCEPT ![c] = NoLocals]
  /\ wop' = [wop EXCEPT ![c] = Null]
  /\ UNCHANGED <<dbVars, wstarted, accountsCreated>>
  /\ UNCHANGED nonWalletVars

\* String.prototype.toUpperCase on a string value
ToUpperCase(str) == [i \in 1..Len(str) |-> UpperChar(str[i])]

ZeroBalance == [ETH |-> <<"0">>, USD |-> <<"0">>]

\* tokenBalance.first || tokenBalance.second || fallback
FirstGiven(tokenBalance, first, second, fallback) ==
  IF first \in DOMAIN tokenBalance /\ tokenBalance[first] # <<>>
    THEN tokenBalance[first]
  ELSE IF second \in DOMAIN tokenBalance /\ tokenBalance[second] # <<>>
    THEN tokenBalance[second]
  ELSE fallback

\* the body of the for loop of getWalletBalance for one tokenBalance
BalanceWith(balance, tokenBalance) ==
  LET symbol == FirstGiven(tokenBalance, "symbol", "asset_id", <<"E", "T", "H">>)
      amount == FirstGiven(tokenBalance, "amount", "balance", <<"0">>)
  IN  IF ToUpperCase(symbol) = <<"E", "T", "H">>
      THEN [ETH |-> amount,
            USD |-> ToFixed2(MulNum(ParseFloat(amount), Num(2000, 0)))]
      ELSE balance

\* the balance after the first k entries of the list
RECURSIVE BalanceUpTo(_, _)
BalanceUpTo(list, k) ==
  IF k = 0 THEN ZeroBalance ELSE BalanceWith(BalanceUpTo(list, k - 1), list[k])

\* mutant of BalanceCatch: the error leaves getWalletBalance
BalanceCatchRethrow(message) == Thrown(message)

\* the catch block of getWalletBalance
BalanceCatch(message) == Returned(ZeroBalance)

\* what cdp.evm.listTokenBalances may settle with: a rejection, something
\* that is no array, and lists, one of them holding a null entry
ListOutcomes ==
  {[kind |-> "error", message |-> "listTokenBalances failed"],
   [kind |-> "ok", isArray |-> FALSE],
   [kind |-> "ok", isArray |-> TRUE, list |-> <<>>],
   [kind |-> "ok", isArray |-> TRUE,
    list |-> <<[symbol |-> <<"e", "t", "h">>, amount |-> <<"0", ".", "5">>]>>],
   [kind |-> "ok", isArray |-> TRUE,
    list |-> <<[asset_id |-> <<"U", "S", "D", "C">>, balance |-> <<"3">>],
               [balance |-> <<"0", ".", "0", "0", "1", "2", "3">>]>>],
   [kind |-> "ok", isArray |-> TRUE,
    list |-> <<[symbol |-> <<"E", "T", "H">>, amount |-> <<"2">>], Null>>]}

\* getWalletBalance once listTokenBalances has settled with outcome
BalanceFromListing(outcome) ==
  IF outcome.kind = "error" THEN BalanceCatch(outcome.message)
  ELSE IF ~outcome.isArray THEN Returned(ZeroBalance)
  ELSE IF \E i \in 1..Len(outcome.list) : outcome.list[i] = Null
    THEN BalanceCatch(TypeErrorReading("null", "symbol"))
  ELSE Returned(BalanceUpTo(outcome.list, Len(outcome.list)))

\* getWalletBalance(userId) up to the await of the prisma.user.findUnique in
\* getWallet
GetWalletBalanceCall(c, userId) ==
  /\ wpc[c] = "idle"
  /\ wstarted < MaxCalls
  /\ wstarted' = wstarted + 1
  /\ wop' = [wop EXCEPT ![c] = [name |-> "getWalletBalance", userId |-> userId]]
  /\ wlocal' = [wlocal EXCEPT ![c] = NoLocals]
  /\ Continues(c, "balanceWallet")
  /\ UNCHANGED <<dbVars, accountsCreated>>
  /\ UNCHANGED nonWalletVars

\* findUnique settles: getWallet throws into the catch block of
\* getWalletBalance, or listTokenBalances is called
BalanceWalletSettle(c, dbUp) ==
  /\ wpc[c] = "balanceWallet"
  /\ IF ~dbUp
     THEN /\ Ends(c, BalanceCatch(DbError))
          /\ UNCHANGED wlocal
     ELSE LET user == FindUser(wop[c].userId)
          IN  IF WalletMissing(user)
              THEN /\ wlocal' = [wlocal EXCEPT ![c].user = user]
                   /\ Ends(c, BalanceCatch("Wallet not found for user"))
              ELSE /\ wlocal' = [wlocal EXCEPT ![c].user = user,
                                               ![c].wallet = WalletOf(user)]
                   /\ Continues(c, "listBalances")
  /\ UNCHANGED <<dbVars, wop, wstarted, accountsCreated>>
  /\ UNCHANGED nonWalletVars

\* listTokenBalances settles and getWalletBalance returns
ListBalancesSettle(c, outcome) ==
  /\ wpc[c] = "listBalances"
  /\ wlocal' = [wlocal EXCEPT ![c].balances = outcome]
  /\ Ends(c, BalanceFromListing(outcome))
  /\ UNCHANGED <<dbVars, wop, wstarted, accountsCreated>>
  /\ UNCHANGED nonWalletVars

SendAmounts == {<<"0", ".", "0", "1">>}

SendTargets == {"0xb0b"}

WalletNext ==
  \E c \in Calls :
    \/ \E userId \in WalletUserIds, network \in WalletNetworks :
         CreateWalletCall(c, userId, network)
    \/ \E ok \in BOOLEAN, hasId \in BOOLEAN : CreateAccountSettle(c, ok, hasId)
    \/ \E dbUp \in BOOLEAN : UserUpdateSettle(c, dbUp)
    \/ \E outcome \in FaucetOutcomes : FaucetSettle(c, outcome)
    \/ \E userId \in WalletUserIds, toAddress \in SendTargets,
          amount \in SendAmounts, currency \in Currencies :
         SendCryptoCall(c, userId, toAddress, amount, currency)
    \/ \E dbUp \in BOOLEAN : GetWalletSettle(c, dbUp)
    \/ \E dbUp \in BOOLEAN : CreateRecordSettle(c, dbUp)
    \/ \E outcome \in SendOutcomes : SendSettle(c, outcome)
    \/ \E dbUp \in BOOLEAN : MarkPendingSettle(c, dbUp)
    \/ \E dbUp \in BOOLEAN : MarkFailedSettle(c, dbUp)
    \/ \E userId \in WalletUserIds : GetWalletBalanceCall(c, userId)
    \/ \E dbUp \in BOOLEAN : BalanceWalletSettle(c, dbUp)
    \/ \E outcome \in ListOutcomes : ListBalancesSettle(c, outcome)
    \/ WalletReturn(c)

WalletSpec == Init /\ [][WalletNext]_vars

(***************************************************************************)
(* Properties                                                              *)
(***************************************************************************)
\* a resolution is under way or finished, with both tokens given
TokensGiven ==
  /\ pc # "idle"
  /\ req.payerPreferredToken # Undefined
  /\ req.payeeRequiredToken # Undefined

\* the tokens of the current request are the same up to letter case
TokensEqualIgnoringCase ==
  /\ TokensGiven
  /\ ToLowerCase(req.payerPreferredToken) = ToLowerCase(req.payeeRequiredToken)

TokensDiffer ==
  /\ TokensGiven
  /\ ToLowerCase(req.payerPreferredToken) # ToLowerCase(req.payeeRequiredToken)

\* the resolution returned the unavailable result with a reason
ReturnedUnavailable ==
  /\ result.kind = "returned"
  /\ result.value.swapRequired
  /\ ~result.value.swapPossible
  /\ "error" \in DOMAIN result.value
  /\ result.value.error # ""

\* the HTTP outcome o is a success envelope that carries a quote
CarriesQuote(o) ==
  /\ o.kind = "response"
  /\ "data" \in DOMAIN o
  /\ "code" \in DOMAIN o.data
  /\ o.data.code = "0"
  /\ "data" \in DOMAIN o.data
  /\ o.data.data # <<>>

\* C1: a request whose payer and payee tokens are equal up to letter case is
\* resolved as the direct payment (swapRequired false, input and output
\* amount the requested amount) with no getSwapQuote call and no HTTP call,
\* in testnet and in live mode.
C1_DirectWithoutCalls ==
  TokensEqualIgnoringCase =>
    /\ pc = "done"
    /\ quoteCalls = 0
    /\ netCalls = 0
    /\ sent = Null
    /\ quoteResult = Null
    /\ result.kind = "returned"
    /\ result.value.swapRequired = FALSE
    /\ result.value.inputAmount = req.amount
    /\ result.value.outputAmount = req.amount

C1_Witness ==
  /\ TokensEqualIgnoringCase
  /\ req.payerPreferredToken # req.payeeRequiredToken
  /\ ~config.testnetMode
  /\ pc = "done"
  /\ result.value.swapRequired = FALSE
  /\ netCalls = 0

\* a finished resolution has returned a value, the unavailable result when
\* no route is available
ReturnsValue ==
  pc = "done" =>
    /\ result.kind = "returned"
    /\ (\/ req.payerPreferredToken = Undefined
        \/ req.payeeRequiredToken = Undefined
        \/ (resp # Null /\ ~CarriesQuote(resp)))
       => ReturnedUnavailable

\* C2: calculatePaymentRoute never raises: every resolution that was started
\* finishes, a finished resolution has returned a value, and when no route is
\* available (a token is missing, the HTTP request failed, the envelope was
\* rejected or carried no quote) that value is the unavailable result
\* (swapRequired, not swapPossible, an error text).
C2_NeverRaises ==
  /\ []ReturnsValue
  /\ [](pc # "idle" => <>(pc = "done"))

C2_Witness ==
  /\ pc = "done"
  /\ resp # Null
  /\ resp.kind = "response"
  /\ "data" \in DOMAIN resp
  /\ "data" \in DOMAIN resp.data
  /\ resp.data.code = "0"
  /\ resp.data.data = <<>>
  /\ ReturnedUnavailable

\* C3 (as claimed): in testnet mode the toTokenAmount of every quote of
\* getSwapQuote is amount x pair rate x 0.997.
C3_QuoteAppliesFee ==
  (config.testnetMode /\ quoteResult # Null) =>
    quoteResult.data.toTokenAmount =
      NumToString(MulNum(MulNum(ParseFloat(req.amount),
                                MockRate(GetTokenSymbol(req.payerPreferredToken, req.chainId),
                                         GetTokenSymbol(req.payeeRequiredToken, req.chainId))),
                         FeeFactor))

\* C4 (as claimed): a request with amount "0" or "" and differing tokens is
\* rejected before any quote is computed and before any HTTP call.
C4_ZeroAmountRejected ==
  (TokensDiffer /\ req.amount \in {<<"0">>, <<>>}) =>
    /\ netCalls = 0
    /\ sent = Null
    /\ (quoteResult # Null => ~quoteResult.success)
    /\ (pc = "done" => ReturnedUnavailable)

\* C5: in live mode, when the envelope of the response carries a code other
\* than '0', getSwapQuote returns success false, data null and the error
\* 'OKX API Error: <msg or Unknown error>', and calculatePaymentRoute returns
\* the unavailable result with that error.
C5_RejectedEnvelope ==
  (/\ ~config.testnetMode
   /\ resp # Null
   /\ resp.kind = "response"
   /\ "data" \in DOMAIN resp
   /\ ("code" \notin DOMAIN resp.data \/ resp.data.code # "0")) =>
    /\ quoteResult.success = FALSE
    /\ quoteResult.data = Null
    /\ quoteResult.error =
         "OKX API Error: " \o
           (IF "msg" \in DOMAIN resp.data /\ resp.data.msg # ""
            THEN resp.data.msg ELSE "Unknown error")
    /\ pc \in {"gotQuote", "done"}
    /\ pc = "done" => (ReturnedUnavailable /\ result.value.error = quoteResult.error)

C5_Witness ==
  /\ ~config.testnetMode
  /\ pc = "done"
  /\ resp # Null
  /\ resp.kind = "response"
  /\ "data" \in DOMAIN resp
  /\ resp.data.code = "50011"
  /\ ReturnedUnavailable
  /\ result.value.error = "OKX API Error: Unknown error"

\* C6 (as claimed): in live mode getSwapQuote never returns success without
\* quote data.
C6_NoSuccessWithoutData ==
  (~config.testnetMode /\ quoteResult # Null /\ quoteResult.success) =>
    quoteResult.data # Null

\* C7 (as claimed): with the built-in mock API key no HTTP call is made.
C7_MockKeyNoNetwork ==
  config.apiKey = MockApiKey => (netCalls = 0 /\ sent = Null)

\* C8 (as claimed): every HTTP request issued in live mode carries the signed
\* headers over timestamp + method + path + query + body, never the mock
\* headers.
C8_LiveRequestsSigned ==
  (~config.testnetMode /\ sent # Null) =>
    /\ sent.headers # MockHeaders
    /\ sent.headers =
         [Content_Type         |-> "application/json",
          OK_ACCESS_KEY        |-> config.apiKey,
          OK_ACCESS_SIGN       |-> Hmac(config.secretKey,
                                        <<sent.timestamp, "GET", sent.requestPath,
                                          <<"?", sent.queryParams>>, "">>),
          OK_ACCESS_TIMESTAMP  |-> sent.timestamp,
          OK_ACCESS_PASSPHRASE |-> config.passphrase,
          OK_ACCESS_PROJECT    |-> config.projectId]

\* C9: no retries: one resolution makes at most one getSwapQuote call and
\* at most one HTTP call, and once that HTTP call has failed or was rejected
\* the resolution no longer waits for HTTP and ends with the unavailable
\* result.
C9_NoRetry ==
  /\ quoteCalls <= 1
  /\ netCalls <= 1
  /\ (resp # Null /\ ~CarriesQuote(resp)) =>
       /\ netCalls = 1
       /\ pc \in {"gotQuote", "done"}
       /\ pc = "done" => ReturnedUnavailable

C9_Witness ==
  /\ pc = "done"
  /\ resp # Null
  /\ resp.kind = "error"
  /\ netCalls = 1
  /\ ReturnedUnavailable

\* C10: quotes are not cached: in live mode every swap-needed resolution
\* issues its own HTTP call (stamped with its own time), and its quote and
\* its result come from the response to that call, also when the request
\* repeats the previous one.
C10_NoCache ==
  (~config.testnetMode /\ quoteCalls = 1) =>
    /\ netCalls = 1
    /\ sent # Null
    /\ sent.timestamp = started
    /\ sent.queryParams.amount = req.amount
    /\ pc \in {"gotQuote", "done"} =>
         /\ resp # Null
         /\ IF CarriesQuote(resp)
            THEN /\ quoteResult.success
                 /\ quoteResult.data = resp.data.data[1]
                 /\ pc = "done" =>
                      /\ result.kind = "returned"
                      /\ result.value.swapPossible
                      /\ result.value.outputAmount = resp.data.data[1].toTokenAmount
                      /\ result.value.estimatedGas = resp.data.data[1].estimatedGas
                      /\ result.value.route = resp.data.data[1].route
            ELSE pc = "done" => ReturnedUnavailable

C10_Witness ==
  /\ ~config.testnetMode
  /\ pc = "done"
  /\ repeat
  /\ started = 2
  /\ prevResp # Null
  /\ CarriesQuote(prevResp)
  /\ resp # Null
  /\ CarriesQuote(resp)
  /\ resp # prevResp
  /\ result.value.outputAmount = resp.data.data[1].toTokenAmount

\* what calculatePaymentRoute(r) returns when it runs alone and its HTTP
\* request, if it issues one, settles with outcome o
AloneResult(r, o) ==
  IF r.payerPreferredToken = Undefined \/ r.payeeRequiredToken = Undefined
    THEN RouteCatch(TypeErrorReading("undefined", "toLowerCase"))
  ELSE IF SameToken(r.payerPreferredToken, r.payeeRequiredToken)
    THEN Returned(DirectRoute(r.amount))
  ELSE IF config.testnetMode
    THEN RouteFromQuote(r.amount, MockSwapQuote(QuoteArgs(r)))
  ELSE RouteFromQuote(r.amount, QuoteFromOutcome(o))

\* every finished resolution of a caller has the result of running alone
ConcResultsAsAlone ==
  \A c \in Calls :
    cpc[c] = "done" => cresult[c] = AloneResult(creq[c], cresp[c])

\* a step belongs to one caller and leaves the other caller's request,
\* request in flight, response, quote and result, and the configuration, alone
ConcStepOfOne ==
  \E c \in Calls :
    /\ config' = config
    /\ \A d \in Calls \ {c} :
         /\ cpc'[d] = cpc[d]
         /\ creq'[d] = creq[d]
         /\ csent'[d] = csent[d]
         /\ cresp'[d] = cresp[d]
         /\ cquote'[d] = cquote[d]
         /\ cresult'[d] = cresult[d]

\* C11: two calculatePaymentRoute calls on one service instance do not
\* interfere: under every interleaving each call returns what it would
\* return running alone against the same provider response, and no step of
\* one call changes anything the other call reads.
C11_NoInterference ==
  /\ []ConcResultsAsAlone
  /\ [][ConcStepOfOne]_vars

C11_Witness ==
  /\ cpc[1] = "done"
  /\ cpc[2] = "gotQuote"
  /\ creq[1] = creq[2]
  /\ cresp[1] # Null
  /\ cresp[2] # Null
  /\ CarriesQuote(cresp[1])
  /\ CarriesQuote(cresp[2])
  /\ cresp[1] # cresp[2]
  /\ cresult[1].value.outputAmount = cresp[1].data.data[1].toTokenAmount

\* the swap executeSwap returned is the mock swap of its own arguments
SwapResultOfArgs(hash) ==
  /\ sresult.success
  /\ sresult.transactionHash = hash
  /\ sresult.fromTokenAmount = sargs.amount
  /\ sresult.toTokenAmount =
       CalculateMockSwapOutput(sargs.fromTokenAddress, sargs.toTokenAddress,
                               sargs.amount, sargs.chainId)

\* C12: when the Transaction write inside logSwapTransaction fails, executeSwap
\* still returns the successful swap result, with the transaction hash and the
\* amounts it had computed before the write was attempted.
C12_LogFailureSwallowed ==
  (spc = "done" /\ logOutcome = "failed") =>
    /\ sresult = spending
    /\ SwapResultOfArgs(spending.transactionHash)

\* a call with a payment request id has returned after its audit write failed
C12_Witness ==
  /\ spc = "done"
  /\ logWrites = 1
  /\ logOutcome = "failed"
  /\ sargs.paymentRequestId = "pr_42"
  /\ sresult.success
  /\ sresult.transactionHash \in RandomHashes
  /\ sresult.toTokenAmount = <<"2", "4", "9", "2", ".", "5">>
  /\ transactions = <<>>

\* C13: whenever executeSwap has returned a completed swap, in sandbox or live
\* mode, with or without a payment request id, a Transaction write for that
\* swap has been attempted.
C13_AuditAlwaysAttempted ==
  (spc = "done" /\ sresult.success) => logWrites >= 1

\* C14: in sandbox mode, re-spelling the from or the to address in another
\* letter case changes neither the symbol getTokenSymbol finds nor the
\* toTokenAmount getSwapQuote quotes.
C14_CaseInsensitiveQuote ==
  sample.op = "respell" =>
    /\ sample.spelledSymbols = sample.symbols
    /\ sample.spelledQuote.data.toTokenAmount = sample.quote.data.toTokenAmount

\* ETH -> USDC quoted with both addresses in upper case
C14_Witness ==
  /\ sample.op = "respell"
  /\ sample.args.fromTokenAddress = AddressOf("ETH")
  /\ sample.spelled.fromTokenAddress # sample.args.fromTokenAddress
  /\ sample.spelled.toTokenAddress # sample.args.toTokenAddress
  /\ sample.spelled.toTokenAddress # ToLowerCase(sample.args.toTokenAddress)
  /\ sample.symbols = <<"ETH", "USDC">>
  /\ sample.spelledQuote.success
  /\ sample.spelledQuote.data.toTokenAmount = <<"2", "5", "0", "0">>

\* the text of an amount that is a finite number
FiniteAmount(text) == IsFinite(ParseFloat(text))

\* C15: for every positive input amount and every pair of tokens A and B,
\* the sandbox conversion A -> B and the conversion back B -> A both yield a
\* finite, non-negative amount.
C15_RoundTripFinite ==
  (sample.op = "roundTrip" /\ FiniteAmount(sample.amount)
     /\ ParseFloat(sample.amount).m > 0) =>
    /\ FiniteAmount(sample.out)
    /\ FiniteAmount(sample.back)

\* C16 (as claimed): a resolution of differing tokens calls getSwapQuote
\* exactly once, with the chainId, amount and wallet address of the request,
\* the payer token as fromTokenAddress and the payee token as toTokenAddress;
\* and when that quote is successful the result is the resolved route with
\* inputAmount the requested amount and outputAmount, estimatedGas, tradeFee,
\* priceImpact, route and slippage those of the quote.
C16_DelegatesAndCopies ==
  (pc = "done" /\ TokensDiffer) =>
    /\ quoteCalls = 1
    /\ sent # Null =>
         sent.queryParams =
           [chainId           |-> req.chainId,
            fromTokenAddress  |-> req.payerPreferredToken,
            toTokenAddress    |-> req.payeeRequiredToken,
            amount            |-> req.amount,
            slippage          |-> sent.queryParams.slippage,
            userWalletAddress |-> req.userWalletAddress]
    /\ quoteResult.success =>
         /\ result.kind = "returned"
         /\ result.value.swapRequired
         /\ result.value.swapPossible
         /\ result.value.inputAmount = req.amount
         /\ result.value.outputAmount = quoteResult.data.toTokenAmount
         /\ result.value.estimatedGas = quoteResult.data.estimatedGas
         /\ result.value.tradeFee = quoteResult.data.tradeFee
         /\ result.value.priceImpact = quoteResult.data.priceImpact
         /\ result.value.route = quoteResult.data.route
         /\ result.value.slippage = quoteResult.data.slippage

\* C17: calculatePaymentRoute passes no slippage, so every quote it requests
\* is computed with the default '0.5': the live request carries slippage
\* '0.5', the sandbox quote carries it, and the route resolved in sandbox
\* mode reports it.
C17_DefaultSlippage ==
  /\ sent # Null => sent.queryParams.slippage = "0.5"
  /\ (config.testnetMode /\ quoteResult # Null) =>
       quoteResult.data.slippage = "0.5"
  /\ (config.testnetMode /\ pc = "done" /\ TokensDiffer) =>
       /\ result.value.swapPossible
       /\ result.value.slippage = "0.5"

\* a sandbox resolution of ETH -> USDC has returned the resolved route
C17_Witness ==
  /\ config.testnetMode
  /\ pc = "done"
  /\ TokensDiffer
  /\ quoteCalls = 1
  /\ "slippage" \notin DOMAIN QuoteArgs(req)
  /\ result.value.swapPossible
  /\ result.value.slippage = DefaultSlippage
  /\ result.value.outputAmount = <<"2", "5", "0", "0">>

\* caller c is inside, or at the end of, a call of the named method
InCall(c, name) == wpc[c] # "idle" /\ wop[c].name = name

\* the Transaction record the sendCrypto call of c created
RecordOf(c) == transactions[RowOf(wlocal[c].transaction)]

\* the sendCrypto call of c has finished and its last status update succeeded
FinishedUpdated(c) == wpc[c] = "done" /\ wlocal[c].statusUpdate = "ok"

SendLifecycle(c) ==
  /\ wlocal[c].sendRequest # Null => wlocal[c].transaction # 0
  /\ wpc[c] = "send" => RecordOf(c).status = "PROCESSING"
  /\ (FinishedUpdated(c) /\ wlocal[c].sendResult.kind = "ok") =>
       /\ RecordOf(c).status = "PENDING"
       /\ RecordOf(c).txHash = wlocal[c].sendResult.transactionHash
       /\ wresult[c].kind = "returned"
       /\ wresult[c].value.success
       /\ wresult[c].value.transactionHash = wlocal[c].sendResult.transactionHash
  /\ (FinishedUpdated(c) /\ wlocal[c].sendResult.kind = "error") =>
       /\ RecordOf(c).status = "FAILED"
       /\ wresult[c] = Thrown(wlocal[c].sendResult.message)
  /\ FinishedUpdated(c) => RecordOf(c).status # "PROCESSING"

NeverBackToProcessing ==
  \A i \in 1..Len(transactions) :
    transactions[i].status \in {"FAILED", "PENDING"} =>
      transactions'[i].status # "PROCESSING"

\* C18 (as claimed): sendCrypto creates its Transaction record as PROCESSING
\* before sendTransaction is called; after a successful send the record is
\* PENDING with the transaction hash and sendCrypto returns success; after a
\* failed send the record is FAILED and the send error is rethrown; once a
\* call whose status update succeeded has finished its record is no longer
\* PROCESSING; and no record goes from FAILED or PENDING back to PROCESSING.
C18_RecordLifecycle ==
  /\ [](\A c \in Calls : InCall(c, "sendCrypto") => SendLifecycle(c))
  /\ [][NeverBackToProcessing]_vars

\* the sendCrypto call of c found no stored wallet address for its user
FoundNoWallet(c) ==
  \/ wlocal[c].user = Null
  \/ ~Truthy(wlocal[c].user.walletAddress)

\* C19: a sendCrypto call whose preconditions fail (the service is not
\* initialized, or the user has no stored wallet address) throws, has created
\* no Transaction record and has not called sendTransaction.
C19_NoWalletNoEffect ==
  \A c \in Calls :
    (InCall(c, "sendCrypto") /\ wpc[c] = "done"
       /\ (~Initialized \/ FoundNoWallet(c))) =>
      /\ wresult[c].kind = "thrown"
      /\ wlocal[c].transaction = 0
      /\ wlocal[c].sendRequest = Null
      /\ \A i \in 1..Len(transactions) :
           Truthy(transactions[i].fromAddress)

\* sendCrypto for the user without a wallet has thrown
C19_Witness ==
  /\ InCall(1, "sendCrypto")
  /\ wpc[1] = "done"
  /\ wop[1].userId = "u2"
  /\ users["u2"].walletAddress = NullString
  /\ wlocal[1].user = users["u2"]
  /\ wresult[1] = Thrown("Wallet not found for user")
  /\ transactions = <<>>

\* the row prisma.user.update writes for the createWallet call of c
StoredWallet(c) ==
  [walletId      |-> WalletIdOf(wlocal[c].account, wop[c].userId),
   walletAddress |-> wlocal[c].account.address]

CreateWalletOrder(c) ==
  /\ wlocal[c].faucetRequest # Null =>
       /\ Includes(wop[c].network, <<"s","e","p","o","l","i","a">>)
          \/ Includes(wop[c].network, <<"t","e","s","t","n","e","t">>)
       /\ wlocal[c].userUpdated
       /\ wlocal[c].faucetRequest.address = wlocal[c].account.address
  /\ wlocal[c].userUpdated => wlocal[c].account # Null
  /\ (wpc[c] = "done" /\ wlocal[c].faucetResult # Null) =>
       wresult[c] = Returned([walletId |-> StoredWallet(c).walletId,
                              address  |-> wlocal[c].account.address,
                              network  |-> wop[c].network])

CreateWalletSteps ==
  /\ users' # users =>
       \E c \in Calls :
         /\ InCall(c, "createWallet")
         /\ wpc[c] = "userUpdate"
         /\ wlocal[c].account # Null
         /\ users' = [users EXCEPT ![wop[c].userId] = StoredWallet(c)]
  /\ \A c \in Calls :
       /\ (wpc[c] = "createAccount" /\ wpc'[c] = "done") =>
            (users' = users /\ wresult'[c].kind = "thrown")
       /\ (wpc[c] = "userUpdate" /\ wpc'[c] = "faucet") =>
            users'[wop[c].userId] = StoredWallet(c)
       /\ (wpc[c] = "faucet" /\ wpc'[c] = "done") => users' = users

\* C20: createWallet updates the user record only after createAccount has
\* succeeded, a failed createAccount leaving the record unchanged and
\* throwing; it asks the faucet only on a network named sepolia or testnet
\* and only after the user record is updated; and whether the faucet request
\* fails or not it returns the wallet data and leaves the stored wallet.
C20_CreateWalletOrder ==
  /\ [](\A c \in Calls : InCall(c, "createWallet") => CreateWalletOrder(c))
  /\ [][CreateWalletSteps]_vars

\* createWallet on base-sepolia has returned although the faucet failed
C20_Witness ==
  /\ InCall(2, "createWallet")
  /\ wpc[2] = "done"
  /\ wop[2].userId = "u2"
  /\ wop[2].network = BaseSepolia
  /\ wlocal[2].faucetResult # Null
  /\ wlocal[2].faucetResult.kind = "error"
  /\ wresult[2].kind = "returned"
  /\ wresult[2].value.address = "0xacc1"
  /\ users["u2"].walletAddress = "0xacc1"

\* the step in which the createWallet call of c returns its wallet data
CreateWalletReturns(c) ==
  /\ InCall(c, "createWallet")
  /\ wpc[c] # "done"
  /\ wpc'[c] = "done"
  /\ wresult'[c].kind = "returned"

\* C21 (as claimed): when a createWallet call returns wallet data, the wallet
\* address stored for its user is the address it returns, also when another
\* createWallet call for the same user runs at the same time or the user
\* already has a wallet.
C21_StoredIsReturned ==
  [][\A c \in Calls :
       CreateWalletReturns(c) =>
         users'[wop[c].userId].walletAddress = wresult'[c].value.address]_vars

\* the getWalletBalance call of c had no wallet to list, or the listing
\* failed
NothingListed(c) ==
  \/ wlocal[c].wallet = Null
  \/ wlocal[c].balances.kind = "error"

\* a getWalletBalance call takes a step
BalanceStep ==
  \E c \in Calls :
    /\ wpc'[c] # wpc[c]
    /\ \/ InCall(c, "getWalletBalance")
       \/ (wpc[c] = "idle" /\ wop'[c].name = "getWalletBalance")

\* C22: getWalletBalance always returns: the zero balance when the user has
\* no wallet or the balance listing fails; and no step of it changes a user
\* record or a Transaction record.
C22_BalanceNeverThrows ==
  /\ [](\A c \in Calls :
          (InCall(c, "getWalletBalance") /\ wpc[c] = "done") =>
            /\ wresult[c].kind = "returned"
            /\ NothingListed(c) => wresult[c].value = ZeroBalance)
  /\ [][BalanceStep => (users' = users /\ transactions' = transactions)]_vars

\* the balance of a user with a wallet was asked while a Transaction record
\* exists, and the listing failed
C22_Witness ==
  /\ InCall(1, "getWalletBalance")
  /\ wpc[1] = "done"
  /\ wlocal[1].wallet # Null
  /\ wlocal[1].balances.kind = "error"
  /\ wresult[1] = Returned(ZeroBalance)
  /\ transactions # <<>>

\* C23 (as claimed): for every pair of listed tokens the amount executeSwap
\* yields in sandbox mode is the amount getSwapQuote quotes for the same
\* swap less the 0.3% fee, the two using the same pre-fee rate.
C23_QuoteMatchesExecution ==
  sample.op = "quoteExecute" =>
    ParseFloat(sample.executed) = MulNum(ParseFloat(sample.quoted), FeeFactor)

====
